---- MODULE Spec2Model ----
(***************************************************************************)
(* PrimoGreedy: the exclusion ledger (seen_tickers.json) in its two        *)
(* implementations (src/core/memory.py and src/agent.py) and the agent.py  *)
(* LangGraph pipeline chat | scout -> gatekeeper -> analyst.               *)
(*                                                                         *)
(* Time is counted in whole days.  A JSON value of the ledger file is a    *)
(* record [fmt, t]: fmt "num" is a Unix timestamp (what core/memory.py     *)
(* writes), "iso" an ISO-8601 string (what agent.py writes), "badstr" a    *)
(* string that is no ISO date, "null" a value that is neither a number nor *)
(* a string; t is the instant the timestamp denotes, in days.              *)
(***************************************************************************)
EXTENDS Integers, Sequences, FiniteSets, TLC

VARIABLES
    now,        \* wall clock, in days (time.time() / datetime.now)
    file,       \* content of seen_tickers.json: [kind, entries]
    canRead,    \* open(file, "r") succeeds
    canWrite,   \* open(file, "w") succeeds
    lastOp,     \* the ledger call that ran last, with its argument
    ret,        \* what that call returned: [out, map]
    MAX_RETRIES,\* the configured retry maximum of the graph
    request,    \* the input state app.invoke was called with
    pc,         \* the node of the graph that runs next
    state,      \* AgentState, as merged from the nodes' updates
    trace,      \* the nodes executed so far, in order
    seen_list,  \* scout_node's seen_list of its last discovery
    portfolio,  \* tickers in paper_portfolio.json
    procs,      \* the pipeline instances inside mark_ticker_seen: [pc, mem, ...]
    cand,       \* the candidate a validation function is called with
    result,     \* what that function returned
    chain       \* one invocation of invoke_with_fallback

ledgerVars == <<now, file, canRead, canWrite, lastOp, ret>>

graphVars == <<MAX_RETRIES, request, pc, state, trace, seen_list, portfolio>>

\* the state of the functions that are checked on their own
auxVars == <<procs, cand, result, chain>>

vars == <<now, file, canRead, canWrite, lastOp, ret,
          MAX_RETRIES, request, pc, state, trace, seen_list, portfolio,
          procs, cand, result, chain>>

\* no instance is inside mark_ticker_seen, no function is being called
NoProcs == <<>>
NoCand == [fn |-> "none"]
NoResult == [status |-> "none"]
NoChain == [outcome |-> "off"]

AuxOff ==
    /\ procs = NoProcs
    /\ cand = NoCand
    /\ result = NoResult
    /\ chain = NoChain

---------------------------------------------------------------------------
(* Bounds and program constants *)

\* 30 days: MEMORY_TTL_SECONDS = 30 * 24 * 60 * 60, timedelta(days=30)
MEMORY_TTL_DAYS == 30

\* the clock readings the model draws from (days)
ClockDays == {0, 29, 30, 31, 40, 60}

\* symbols the ledger calls are made with
LedgerTickers == {"ABC", "XYZ"}

---------------------------------------------------------------------------
(* JSON values and file contents *)

Num(t) == [fmt |-> "num", t |-> t]
Iso(t) == [fmt |-> "iso", t |-> t]
BadStr == [fmt |-> "badstr", t |-> 0]
Null   == [fmt |-> "null", t |-> 0]

EmptyMap == [k \in {} |-> Null]

Missing   == [kind |-> "missing", entries |-> EmptyMap]
Invalid   == [kind |-> "invalid", entries |-> EmptyMap]
NonObject == [kind |-> "nonobject", entries |-> EmptyMap]
Object(m) == [kind |-> "object", entries |-> m]

\* the values a ledger entry can hold at clock reading n
EntryValues(n) ==
    {Num(t) : t \in {d \in ClockDays : d <= n}}
        \cup {Iso(t) : t \in {d \in ClockDays : d <= n}}
        \cup {BadStr, Null}

\* every content the file can have at clock reading n
FileContents(n) ==
    {Missing, Invalid, NonObject}
        \cup UNION {{Object(m) : m \in [S -> EntryValues(n)]} : S \in SUBSET LedgerTickers}

\* d[k] = v on a Python dict
Put(m, k, v) == [x \in DOMAIN m \cup {k} |-> IF x = k THEN v ELSE m[x]]

---------------------------------------------------------------------------
(* src/core/memory.py *)

\* _save that never reaches the file
_save_lost(f, data, w) == f

\* _save: json.dump into the file; an OSError is logged and swallowed
_save(f, data, w) == IF w THEN Object(data) ELSE f

\* the loop with the age test written <= : an entry of exactly the TTL is kept
cleaned_inclusive(entries, n) ==
    LET keep == {k \in DOMAIN entries :
                    /\ entries[k].fmt \in {"num", "iso"}
                    /\ n - entries[k].t <= MEMORY_TTL_DAYS}
    IN  [k \in keep |-> Num(entries[k].t)]

\* the loop of load_seen_tickers: ISO strings are converted to a Unix
\* timestamp, strings that do not parse are skipped, entries of age >= TTL
\* are dropped
cleaned(entries, n) ==
    LET keep == {k \in DOMAIN entries :
                    /\ entries[k].fmt \in {"num", "iso"}
                    /\ n - entries[k].t < MEMORY_TTL_DAYS}
    IN  [k \in keep |-> Num(entries[k].t)]

\* load_seen_tickers: [out, map, file]; out = "raise" when an exception
\* other than JSONDecodeError / OSError leaves the function
load_seen_tickers(f, r, w, n) ==
    IF f.kind = "missing"
    THEN [out |-> "ok", map |-> EmptyMap, file |-> f]
    ELSE IF ~r \/ f.kind = "invalid"
    THEN [out |-> "ok", map |-> EmptyMap, file |-> f]
    ELSE IF f.kind = "nonobject"
    THEN [out |-> "raise", map |-> EmptyMap, file |-> f]
    ELSE IF \E k \in DOMAIN f.entries : f.entries[k].fmt = "null"
    THEN [out |-> "raise", map |-> EmptyMap, file |-> f]
    ELSE [out |-> "ok",
          map |-> cleaned(f.entries, n),
          file |-> _save(f, cleaned(f.entries, n), w)]

\* mark_ticker_seen that starts from an empty dict instead of the loaded one
mark_ticker_seen_fresh(f, r, w, n, ticker) ==
    [out |-> "ok",
     map |-> Put(EmptyMap, ticker, Num(n)),
     file |-> _save(f, Put(EmptyMap, ticker, Num(n)), w)]

\* mark_ticker_seen: load, data[ticker] = time.time(), _save
mark_ticker_seen(f, r, w, n, ticker) ==
    LET l == load_seen_tickers(f, r, w, n)
    IN  IF l.out = "raise"
        THEN [out |-> "raise", map |-> EmptyMap, file |-> l.file]
        ELSE [out |-> "ok",
              map |-> Put(l.map, ticker, Num(n)),
              file |-> _save(l.file, Put(l.map, ticker, Num(n)), w)]

---------------------------------------------------------------------------
(* src/agent.py, the ledger *)

\* the loop of load_memory: only ISO strings parse (datetime.fromisoformat
\* raises on anything else and the bare except skips the entry); the
\* timestamp string is kept as it is
cleaned_mem(entries, n) ==
    LET keep == {k \in DOMAIN entries :
                    /\ entries[k].fmt = "iso"
                    /\ n - entries[k].t < MEMORY_TTL_DAYS}
    IN  [k \in keep |-> entries[k]]

\* load_memory: every exception, the one of the write-back included, ends in
\* the outer bare except and returns {}
load_memory(f, r, w, n) ==
    IF f.kind = "missing"
    THEN [out |-> "ok", map |-> EmptyMap, file |-> f]
    ELSE IF ~r \/ f.kind \in {"invalid", "nonobject"}
    THEN [out |-> "ok", map |-> EmptyMap, file |-> f]
    ELSE IF ~w
    THEN [out |-> "ok", map |-> EmptyMap, file |-> f]
    ELSE [out |-> "ok",
          map |-> cleaned_mem(f.entries, n),
          file |-> Object(cleaned_mem(f.entries, n))]

\* agent.mark_ticker_seen without mem[ticker] = now.isoformat()
agent_mark_ticker_seen_load_only(f, r, w, n, ticker) ==
    LET l == load_memory(f, r, w, n)
    IN  [out |-> "ok", map |-> l.map,
         file |-> IF w THEN Object(l.map) ELSE l.file]

\* agent.mark_ticker_seen: load_memory, mem[ticker] = now.isoformat(), write
\* (a failing write is swallowed)
agent_mark_ticker_seen(f, r, w, n, ticker) ==
    LET l == load_memory(f, r, w, n)
    IN  [out |-> "ok",
         map |-> Put(l.map, ticker, Iso(n)),
         file |-> IF w THEN Object(Put(l.map, ticker, Iso(n))) ELSE l.file]

---------------------------------------------------------------------------
(* src/agent.py: configuration, tickers, the market-data attribute bag *)

\* MAX_RETRIES = 1 in agent.py
AGENT_MAX_RETRIES == 1

\* the largest MAX_RETRIES a run is configured with
MaxRetriesCfg == 2

MAX_PRICE_PER_SHARE == 30
MIN_MARKET_CAP == 10000000
MAX_MARKET_CAP == 300000000

\* Python's None where a number is expected
PyNone == -999999

Symbols == {"ABC", "XYZ"}
Regions == {"USA", "Canada"}

REGION_SUFFIXES(region) ==
    CASE region = "USA" -> <<"">>
      [] region = "UK" -> <<".L">>
      [] region = "Canada" -> <<".TO", ".V">>
      [] region = "Australia" -> <<".AX">>
      [] OTHER -> <<"">>

\* symbols that carry an exchange suffix: "." in ticker
Dotted == {s \o x : s \in Symbols, x \in {".L", ".TO", ".V", ".AX"}}

HasDot(t) == t \in Dotted

\* a conversational input: " " in query
ChatTexts == {"what is graham"}

HasSpace(t) == t \in ChatTexts

\* bool(x) of a number or None
Truthy(x) == x /= PyNone /\ x /= 0

\* x or y
PyOr(x, y) == IF Truthy(x) THEN x ELSE y

\* info.get(key, default): the bag names the keys it holds in .keys
Get(info, key, default) == IF key \in info.keys THEN info[key] ELSE default

AllKeys == {"currentPrice", "regularMarketPrice", "trailingEps", "bookValue",
            "marketCap", "ebitda", "sector", "freeCashflow", "totalCash",
            "totalDebt", "currentRatio", "priceToBook", "currency"}

LeanKeys == {"currentPrice", "trailingEps", "bookValue", "marketCap", "ebitda",
             "sector", "freeCashflow", "totalCash"}

\* an attribute bag; priceToBook and currentRatio are in hundredths
Bag(keys, price, eps, bv, cap, ebitda, sector, fcf, cash, debt, cr, pb) ==
    [keys |-> keys, currentPrice |-> price, regularMarketPrice |-> price,
     trailingEps |-> eps, bookValue |-> bv, marketCap |-> cap,
     ebitda |-> ebitda, sector |-> sector, freeCashflow |-> fcf,
     totalCash |-> cash, totalDebt |-> debt, currentRatio |-> cr,
     priceToBook |-> pb, currency |-> "USD"]

EmptyBag == Bag({}, 0, 0, 0, 0, 0, "Unknown", 0, 0, 0, 0, 0)

\* what yf.Ticker(t).info can answer
InfoBags ==
    { Bag(AllKeys, 15, 2, 10, 50000000, 4000000, "Industrials", 1000000, 5000000, 2000000, 150, 90),
      Bag(AllKeys, 45, 2, 10, 50000000, 4000000, "Industrials", 1000000, 5000000, 2000000, 150, 90),
      Bag(AllKeys, 5, 0 - 1, 3, 5000000, 0, "Industrials", 0, 100000, 0, 150, 90),
      Bag(AllKeys, 5, 0 - 1, 3, 50000000, 0, "Technology", 0 - 10000000, 1000000, 0, 150, 90),
      Bag(AllKeys, 15, 2, 10, 50000000, 4000000, "Financial Services", 1000000, 5000000, 2000000, 150, 150),
      Bag(AllKeys, 15, PyNone, 10, 50000000, 4000000, "Industrials", 1000000, 5000000, 2000000, 150, 90),
      Bag(AllKeys, 15, 2, 10, PyNone, 4000000, "Industrials", 1000000, 5000000, 2000000, 150, 90),
      Bag(AllKeys, PyNone, 2, 10, 50000000, 4000000, "Industrials", 1000000, 5000000, 2000000, 150, 90),
      EmptyBag }

\* lean_info of gatekeeper_node: eight keys of raw_info, with defaults
lean_info(raw) ==
    [keys |-> LeanKeys,
     currentPrice |-> PyOr(Get(raw, "currentPrice", 0), Get(raw, "regularMarketPrice", 0)),
     regularMarketPrice |-> 0,
     trailingEps |-> Get(raw, "trailingEps", 0),
     bookValue |-> Get(raw, "bookValue", 0),
     marketCap |-> Get(raw, "marketCap", 0),
     ebitda |-> Get(raw, "ebitda", 0),
     sector |-> Get(raw, "sector", "Unknown"),
     freeCashflow |-> Get(raw, "freeCashflow", 0),
     totalCash |-> Get(raw, "totalCash", 0),
     totalDebt |-> 0, currentRatio |-> 0, priceToBook |-> 0, currency |-> "USD"]

---------------------------------------------------------------------------
(* src/finance_tools.py *)

\* SECTOR_CONFIG with the growth sectors typed "standard": the zombie filter
\* and the debt filter both apply to them
SECTOR_CONFIG_growth_standard(sector) ==
    CASE sector = "Financial Services" ->
            [type |-> "bank", require_pb_under_one |-> TRUE, check_debt |-> FALSE,
             zombie_filter |-> FALSE]
      [] sector \in {"Technology", "Healthcare"} ->
            [type |-> "standard", require_pb_under_one |-> FALSE, check_debt |-> TRUE,
             zombie_filter |-> TRUE]
      [] OTHER ->
            [type |-> "standard", require_pb_under_one |-> FALSE, check_debt |-> TRUE,
             zombie_filter |-> FALSE]

SECTOR_CONFIG(sector) ==
    CASE sector = "Financial Services" ->
            [type |-> "bank", require_pb_under_one |-> TRUE, check_debt |-> FALSE,
             zombie_filter |-> FALSE]
      [] sector \in {"Technology", "Healthcare"} ->
            [type |-> "growth", require_pb_under_one |-> FALSE, check_debt |-> TRUE,
             zombie_filter |-> TRUE]
      [] OTHER ->
            [type |-> "standard", require_pb_under_one |-> FALSE, check_debt |-> TRUE,
             zombie_filter |-> FALSE]

\* pb_ratio is None or pb_ratio > 1.2
BankPbReject(info) ==
    LET pb == Get(info, "priceToBook", 0) IN pb = PyNone \/ pb > 120

\* current_ratio and current_ratio < 0.8
BankLiquidityReject(info) ==
    LET cr == Get(info, "currentRatio", PyNone) IN Truthy(cr) /\ cr < 80

\* fcf < 0 and cash / abs(fcf) < 0.5
ZombieReject(info) ==
    LET fcf == Get(info, "freeCashflow", 0)
        cash == Get(info, "totalCash", 0)
    IN  /\ fcf /= PyNone
        /\ cash /= PyNone
        /\ fcf < 0
        /\ 2 * cash < 0 - fcf

\* ebitda and debt and ebitda > 0 and (debt - (cash or 0)) / ebitda > 3.5
DebtReject(info) ==
    LET ebitda == Get(info, "ebitda", PyNone)
        debt == Get(info, "totalDebt", PyNone)
        cash == Get(info, "totalCash", PyNone)
    IN  /\ Truthy(ebitda)
        /\ Truthy(debt)
        /\ ebitda > 0
        /\ 2 * (debt - PyOr(cash, 0)) > 7 * ebitda

\* the largest r with r * r <= n, by bisection of lo..hi
RECURSIVE Isqrt(_, _, _)
Isqrt(n, lo, hi) ==
    IF lo >= hi THEN lo
    ELSE LET mid == (lo + hi + 1) \div 2
         IN  IF mid * mid <= n THEN Isqrt(n, mid, hi) ELSE Isqrt(n, lo, mid - 1)

\* calculate_graham_number: (22.5 * eps * bvps) ** 0.5, or 0 when eps or
\* bvps is missing, None or not positive; in hundredths, rounded to the
\* nearest hundredth
calculate_graham_number(info) ==
    LET eps == PyOr(Get(info, "trailingEps", 0), 0)
        bvps == PyOr(Get(info, "bookValue", 0), 0)
        twice == Isqrt(4 * 225000 * eps * bvps, 0, 46340)
    IN  IF eps <= 0 \/ bvps <= 0 THEN 0 ELSE (twice + 1) \div 2

\* ticker.endswith(".L")
EndsWithL(ticker) == ticker \in {s \o ".L" : s \in Symbols}

\* ticker.endswith(".L") or currency in ("GBp", "GBX")
PenceQuoted(ticker, currency) == EndsWithL(ticker) \/ currency \in {"GBp", "GBX"}

\* normalize_price of core/ticker_utils.py, in hundredths: price / 100 of a
\* pence-quoted symbol, the price otherwise
normalize_price(price, ticker, currency) ==
    IF PenceQuoted(ticker, currency) THEN price ELSE 100 * price

\* current_price of check_financial_health, in hundredths: the price, or
\* the price / 100 of a pence-quoted symbol
health_price(ticker, info) ==
    LET current_price == PyOr(Get(info, "currentPrice", 0),
                              PyOr(Get(info, "regularMarketPrice", 0), 0))
    IN  IF PenceQuoted(ticker, Get(info, "currency", "USD"))
        THEN current_price ELSE 100 * current_price

\* margin_of_safety: a percentage (kept by whether the intrinsic value is
\* above the price), "No Value (Unprofitable)" or "N/A"
margin_of_safety(intrinsic_val, current_price) ==
    IF intrinsic_val > 0 /\ current_price > 0
    THEN IF intrinsic_val > current_price THEN "discount %"
         ELSE IF intrinsic_val = current_price THEN "0.0%" ELSE "premium %"
    ELSE IF intrinsic_val = 0 THEN "No Value (Unprofitable)"
    ELSE "N/A"

\* the metrics of a rejection name the sector only
RejectMetrics(info) ==
    [sector |-> Get(info, "sector", "Default"), current_price |-> 0,
     intrinsic_value |-> 0, margin_of_safety |-> "unset"]

\* check_financial_health with a last rule that rejects a candidate whose
\* intrinsic value is not above its price
check_financial_health_value_gate(ticker, info) ==
    LET config == SECTOR_CONFIG(Get(info, "sector", "Default"))
        intrinsic_val == calculate_graham_number(info)
        current_price == health_price(ticker, info)
    IN
    IF config.type = "bank" /\ config.require_pb_under_one /\ BankPbReject(info)
    THEN [status |-> "FAIL", reason |-> "pb", metrics |-> RejectMetrics(info)]
    ELSE IF config.type = "bank" /\ BankLiquidityReject(info)
    THEN [status |-> "FAIL", reason |-> "liquidity", metrics |-> RejectMetrics(info)]
    ELSE IF config.zombie_filter /\ ZombieReject(info)
    THEN [status |-> "FAIL", reason |-> "zombie", metrics |-> RejectMetrics(info)]
    ELSE IF config.check_debt /\ config.type = "standard" /\ DebtReject(info)
    THEN [status |-> "FAIL", reason |-> "debt", metrics |-> RejectMetrics(info)]
    ELSE IF intrinsic_val <= current_price
    THEN [status |-> "FAIL", reason |-> "value", metrics |-> RejectMetrics(info)]
    ELSE [status |-> "PASS", reason |-> "passed",
          metrics |-> [sector |-> Get(info, "sector", "Default"),
                       current_price |-> current_price,
                       intrinsic_value |-> intrinsic_val,
                       margin_of_safety |-> margin_of_safety(intrinsic_val, current_price)]]

\* check_financial_health: the status, the rule that decided it, the metrics
check_financial_health(ticker, info) ==
    LET config == SECTOR_CONFIG(Get(info, "sector", "Default"))
        intrinsic_val == calculate_graham_number(info)
        current_price == health_price(ticker, info)
    IN
    IF config.type = "bank" /\ config.require_pb_under_one /\ BankPbReject(info)
    THEN [status |-> "FAIL", reason |-> "pb", metrics |-> RejectMetrics(info)]
    ELSE IF config.type = "bank" /\ BankLiquidityReject(info)
    THEN [status |-> "FAIL", reason |-> "liquidity", metrics |-> RejectMetrics(info)]
    ELSE IF config.zombie_filter /\ ZombieReject(info)
    THEN [status |-> "FAIL", reason |-> "zombie", metrics |-> RejectMetrics(info)]
    ELSE IF config.check_debt /\ config.type = "standard" /\ DebtReject(info)
    THEN [status |-> "FAIL", reason |-> "debt", metrics |-> RejectMetrics(info)]
    ELSE [status |-> "PASS", reason |-> "passed",
          metrics |-> [sector |-> Get(info, "sector", "Default"),
                       current_price |-> current_price,
                       intrinsic_value |-> intrinsic_val,
                       margin_of_safety |-> margin_of_safety(intrinsic_val, current_price)]]

---------------------------------------------------------------------------
(* src/agent.py: AgentState and the helpers of the nodes *)

\* a report text: what kind of text it is, the ticker it was written for
\* and, for the analyst's rejection verdict, the reason it quotes
Text(kind, about, whyKind, whyAbout) ==
    [kind |-> kind, about |-> about, whyKind |-> whyKind, whyAbout |-> whyAbout]

NoText == Text("unset", "", "", "")

NoData == [kind |-> "unset", reason |-> "", info |-> EmptyBag]
ReasonData(r) == [kind |-> "reason", reason |-> r, info |-> EmptyBag]
InfoData(i) == [kind |-> "info", reason |-> "", info |-> i]

\* the state app.invoke starts from: the caller's keys, nothing else set
InitialState(req) ==
    [region |-> req.region, ticker |-> req.ticker, company_name |-> "",
     market_cap |-> PyNone, is_small_cap |-> FALSE, financial_data |-> NoData,
     final_verdict |-> NoText, retry_count |-> 0, status |-> "unset",
     final_report |-> NoText, chart_data |-> "",
     manual_search |-> req.manual_search]

NoRequest == [ticker |-> "", region |-> "USA", manual_search |-> FALSE]

\* the texts the language model answers scout_node's prompt with, as words
RawResponses ==
    { <<"ABC">>, <<"NONE">>, <<"THE", "XYZ">>, <<"undervalued", "stocks">>,
      <<"ABC", "XYZ">> }

RawSymbols == Symbols \cup {"THE", "NONE"}

\* words that match [A-Z]{1,5}(\.[A-Z]{1,2})?
TickerShaped(w) == w \in RawSymbols \cup Dotted

noise_words == {"THE", "AND", "FOR", "NONE", "STOCK", "TICKER", "CAP", "MICRO", "NANO"}

extract_ticker_from_text(text) ==
    IF Len(text) = 1 /\ TickerShaped(text[1])
    THEN text[1]
    ELSE LET candidates ==
                 SelectSeq(text, LAMBDA c : /\ TickerShaped(c)
                                            /\ c \notin noise_words
                                            /\ Len(c) >= 2)
         IN  IF candidates /= <<>> THEN candidates[1] ELSE "NONE"

\* the candidates of the extraction that come after the one returned:
\* extract_ticker_from_text returns candidates[0] and drops them
runners_up(text) ==
    IF Len(text) = 1 /\ TickerShaped(text[1])
    THEN <<>>
    ELSE LET candidates ==
                 SelectSeq(text, LAMBDA c : /\ TickerShaped(c)
                                            /\ c \notin noise_words
                                            /\ Len(c) >= 2)
         IN  IF candidates /= <<>> THEN Tail(candidates) ELSE <<>>

\* what yf.Ticker(candidate).info answers for each suffix tried
SuffixAnswers(region) ==
    [{REGION_SUFFIXES(region)[i] : i \in 1..Len(REGION_SUFFIXES(region))}
        -> {"positive", "nothing", "raise"}]

\* resolve_ticker_suffix leaving the loop at the first provider error
resolve_ticker_suffix_stop_on_error(raw_ticker, region, answers) ==
    LET suffixes == REGION_SUFFIXES(region)
        stops == {i \in 1..Len(suffixes) : answers[suffixes[i]] /= "nothing"}
        first == CHOOSE i \in stops : \A j \in stops : i <= j
    IN  IF HasDot(raw_ticker) THEN raw_ticker
        ELSE IF suffixes = <<"">> THEN raw_ticker
        ELSE IF stops = {} THEN raw_ticker
        ELSE IF answers[suffixes[first]] = "raise" THEN raw_ticker
        ELSE raw_ticker \o suffixes[first]

\* resolve_ticker_suffix: the first suffix whose marketCap is > 0
resolve_ticker_suffix(raw_ticker, region, answers) ==
    LET suffixes == REGION_SUFFIXES(region)
        hits == {i \in 1..Len(suffixes) : answers[suffixes[i]] = "positive"}
    IN  IF HasDot(raw_ticker) THEN raw_ticker
        ELSE IF suffixes = <<"">> THEN raw_ticker
        ELSE IF hits = {} THEN raw_ticker
        ELSE raw_ticker \o suffixes[CHOOSE i \in hits : \A j \in hits : i <= j]

\* check_status without the manual_search test
check_status_by_status(st, max) ==
    IF st.status = "PASS" THEN "analyst"
    ELSE IF st.retry_count >= max THEN "analyst"
    ELSE "scout"

\* initial_routing
initial_routing(st) == IF HasSpace(st.ticker) THEN "chat" ELSE "scout"

\* check_status, the conditional edge after gatekeeper
check_status(st, max) ==
    IF st.manual_search THEN "analyst"
    ELSE IF st.status = "PASS" THEN "analyst"
    ELSE IF st.retry_count >= max THEN "analyst"
    ELSE "scout"

\* is_manual of scout_node
is_manual(st) == st.ticker /= "" /\ st.ticker /= "NONE" /\ st.retry_count = 0

\* gatekeeper_update with the market-cap rule ahead of the price rule
gatekeeper_update_cap_first(st, data, chart) ==
    LET ticker == st.ticker
        retries == st.retry_count
        info == lean_info(data.info)
        price == info.currentPrice
        mkt_cap == info.marketCap
        health == check_financial_health(ticker, info)
        apiError == [st EXCEPT !.is_small_cap = FALSE, !.status = "FAIL",
                               !.retry_count = retries + 1,
                               !.financial_data = ReasonData("api_error")]
        reject(kind) == [st EXCEPT !.market_cap = mkt_cap, !.is_small_cap = FALSE,
                                   !.status = "FAIL", !.company_name = ticker,
                                   !.financial_data = InfoData(info),
                                   !.retry_count = retries + 1,
                                   !.final_report = Text(kind, ticker, "", ""),
                                   !.chart_data = chart]
    IN  IF data.raises \/ price = PyNone \/ mkt_cap = PyNone THEN apiError
        ELSE IF ~(MIN_MARKET_CAP < mkt_cap /\ mkt_cap < MAX_MARKET_CAP) THEN reject("cap")
        ELSE IF price > MAX_PRICE_PER_SHARE THEN reject("price")
        ELSE IF health.status = "FAIL" THEN reject("health")
        ELSE [st EXCEPT !.market_cap = mkt_cap, !.is_small_cap = TRUE,
                        !.status = "PASS", !.company_name = ticker,
                        !.financial_data = InfoData(info), !.chart_data = chart]

\* gatekeeper_update whose exception handler returns no status and no reason
gatekeeper_update_unguarded(st, data, chart) ==
    LET ticker == st.ticker
        retries == st.retry_count
        info == lean_info(data.info)
        price == info.currentPrice
        mkt_cap == info.marketCap
        health == check_financial_health(ticker, info)
        apiError == [st EXCEPT !.is_small_cap = FALSE, !.retry_count = retries + 1]
        reject(kind) == [st EXCEPT !.market_cap = mkt_cap, !.is_small_cap = FALSE,
                                   !.status = "FAIL", !.company_name = ticker,
                                   !.financial_data = InfoData(info),
                                   !.retry_count = retries + 1,
                                   !.final_report = Text(kind, ticker, "", ""),
                                   !.chart_data = chart]
    IN  IF data.raises \/ price = PyNone THEN apiError
        ELSE IF price > MAX_PRICE_PER_SHARE THEN reject("price")
        ELSE IF mkt_cap = PyNone THEN apiError
        ELSE IF ~(MIN_MARKET_CAP < mkt_cap /\ mkt_cap < MAX_MARKET_CAP) THEN reject("cap")
        ELSE IF health.status = "FAIL" THEN reject("health")
        ELSE [st EXCEPT !.market_cap = mkt_cap, !.is_small_cap = TRUE,
                        !.status = "PASS", !.company_name = ticker,
                        !.financial_data = InfoData(info), !.chart_data = chart]

\* gatekeeper_update with a market-cap band that includes its two ends
gatekeeper_update_closed_band(st, data, chart) ==
    LET ticker == st.ticker
        retries == st.retry_count
        info == lean_info(data.info)
        price == info.currentPrice
        mkt_cap == info.marketCap
        health == check_financial_health(ticker, info)
        apiError == [st EXCEPT !.is_small_cap = FALSE, !.status = "FAIL",
                               !.retry_count = retries + 1,
                               !.financial_data = ReasonData("api_error")]
        reject(kind) == [st EXCEPT !.market_cap = mkt_cap, !.is_small_cap = FALSE,
                                   !.status = "FAIL", !.company_name = ticker,
                                   !.financial_data = InfoData(info),
                                   !.retry_count = retries + 1,
                                   !.final_report = Text(kind, ticker, "", ""),
                                   !.chart_data = chart]
    IN  IF data.raises \/ price = PyNone THEN apiError
        ELSE IF price > MAX_PRICE_PER_SHARE THEN reject("price")
        ELSE IF mkt_cap = PyNone THEN apiError
        ELSE IF ~(MIN_MARKET_CAP <= mkt_cap /\ mkt_cap <= MAX_MARKET_CAP) THEN reject("cap")
        ELSE IF health.status = "FAIL" THEN reject("health")
        ELSE [st EXCEPT !.market_cap = mkt_cap, !.is_small_cap = TRUE,
                        !.status = "PASS", !.company_name = ticker,
                        !.financial_data = InfoData(info), !.chart_data = chart]

\* gatekeeper_node's update for a ticker other than NONE.  data.raises: the
\* market-data call raised; chart: what generate_chart returned
gatekeeper_update(st, data, chart) ==
    LET ticker == st.ticker
        retries == st.retry_count
        info == lean_info(data.info)
        price == info.currentPrice
        mkt_cap == info.marketCap
        health == check_financial_health(ticker, info)
        apiError == [st EXCEPT !.is_small_cap = FALSE, !.status = "FAIL",
                               !.retry_count = retries + 1,
                               !.financial_data = ReasonData("api_error")]
        reject(kind) == [st EXCEPT !.market_cap = mkt_cap, !.is_small_cap = FALSE,
                                   !.status = "FAIL", !.company_name = ticker,
                                   !.financial_data = InfoData(info),
                                   !.retry_count = retries + 1,
                                   !.final_report = Text(kind, ticker, "", ""),
                                   !.chart_data = chart]
    IN  IF data.raises \/ price = PyNone THEN apiError
        ELSE IF price > MAX_PRICE_PER_SHARE THEN reject("price")
        ELSE IF mkt_cap = PyNone THEN apiError
        ELSE IF ~(MIN_MARKET_CAP < mkt_cap /\ mkt_cap < MAX_MARKET_CAP) THEN reject("cap")
        ELSE IF health.status = "FAIL" THEN reject("health")
        ELSE [st EXCEPT !.market_cap = mkt_cap, !.is_small_cap = TRUE,
                        !.status = "PASS", !.company_name = ticker,
                        !.financial_data = InfoData(info), !.chart_data = chart]

\* gatekeeper_none without the increment of retry_count
gatekeeper_none_kept(st) ==
    [st EXCEPT !.is_small_cap = FALSE, !.status = "FAIL",
               !.financial_data = ReasonData("no_ticker")]

\* gatekeeper_node's update when scout handed it NONE
gatekeeper_none(st) ==
    [st EXCEPT !.is_small_cap = FALSE, !.status = "FAIL",
               !.retry_count = st.retry_count + 1,
               !.financial_data = ReasonData("no_ticker")]

\* the rejection verdict of analyst_node: state.get('final_report',
\* info.get('reason', 'Failed basic criteria.'))
rejection(st) ==
    IF st.final_report.kind /= "unset"
    THEN Text("rejected", st.ticker, st.final_report.kind, st.final_report.about)
    ELSE IF st.financial_data.kind = "reason"
    THEN Text("rejected", st.ticker, st.financial_data.reason, st.ticker)
    ELSE Text("rejected", st.ticker, "default", st.ticker)

\* analyst_node taking the rejection branch only when a report is at hand
analyst_branch_on_report(st) ==
    IF st.status = "FAIL" /\ st.final_report.kind /= "unset" THEN "reject" ELSE "memo"

\* analyst_node: `if state.get('status') == "FAIL"` returns the rejection
\* before the research, the model call and record_paper_trade
analyst_branch(st) == IF st.status = "FAIL" THEN "reject" ELSE "memo"

\* analyst_node compares and formats eps, book value and ebitda: a None
\* among them raises TypeError
analyst_type_error(info) ==
    \/ Get(info, "trailingEps", 0) = PyNone
    \/ Get(info, "bookValue", 0) = PyNone
    \/ Get(info, "ebitda", 0) = PyNone

\* record_paper_trade: BUY, STRONG BUY and WATCH verdicts are recorded
record_paper_trade(trades, ticker, verdict) ==
    IF verdict \in {"BUY", "WATCH"} THEN trades \cup {ticker} ELSE trades

---------------------------------------------------------------------------
(* The ledger driven directly: calls of the four functions, and time *)

\* the graph is not running: the ledger functions are called on their own
GraphOff ==
    /\ MAX_RETRIES = 0
    /\ request = NoRequest
    /\ pc = "OFF"
    /\ state = InitialState(NoRequest)
    /\ trace = <<>>
    /\ seen_list = {}
    /\ portfolio = {}

NoOp == [name |-> "none", impl |-> "none", ticker |-> "", pre |-> Missing]
NoRet == [out |-> "none", map |-> EmptyMap]

LedgerInit ==
    /\ now \in ClockDays
    /\ file \in FileContents(now)
    /\ canRead \in BOOLEAN
    /\ canWrite \in BOOLEAN
    /\ lastOp = NoOp
    /\ ret = NoRet
    /\ GraphOff
    /\ AuxOff

Apply(name, impl, ticker, res) ==
    /\ file' = res.file
    /\ ret' = [out |-> res.out, map |-> res.map]
    /\ lastOp' = [name |-> name, impl |-> impl, ticker |-> ticker, pre |-> file]
    /\ UNCHANGED <<now, canRead, canWrite>>
    /\ UNCHANGED graphVars
    /\ UNCHANGED auxVars

CallLoadSeenTickers ==
    Apply("load", "core", "", load_seen_tickers(file, canRead, canWrite, now))

CallMarkTickerSeen ==
    \E s \in LedgerTickers :
        Apply("mark", "core", s, mark_ticker_seen(file, canRead, canWrite, now, s))

CallLoadMemory ==
    Apply("load", "agent", "", load_memory(file, canRead, canWrite, now))

CallAgentMarkTickerSeen ==
    \E s \in LedgerTickers :
        Apply("mark", "agent", s, agent_mark_ticker_seen(file, canRead, canWrite, now, s))

\* time passes between calls; the file's permissions may change meanwhile
Tick ==
    /\ \E d \in ClockDays : d > now /\ now' = d
    /\ canRead' \in BOOLEAN
    /\ canWrite' \in BOOLEAN
    /\ lastOp' = NoOp
    /\ ret' = NoRet
    /\ UNCHANGED file
    /\ UNCHANGED graphVars
    /\ UNCHANGED auxVars

LedgerNext ==
    \/ CallLoadSeenTickers
    \/ CallMarkTickerSeen
    \/ CallLoadMemory
    \/ CallAgentMarkTickerSeen
    \/ Tick

LedgerSpec == LedgerInit /\ [][LedgerNext]_vars

---------------------------------------------------------------------------
(* The agent.py graph: chat | scout -> gatekeeper -> analyst | scout *)

\* the day the request is made
RequestDay == 40

\* app.py sends an explicit ticker with manual_search = True and a chat text
\* with manual_search = False; test_run.py and test_agent.py send no flag
Requests ==
    {r \in [ticker : {"", "NONE", "ABC"} \cup ChatTexts,
            region : Regions,
            manual_search : BOOLEAN] : r.manual_search => r.ticker \in Symbols}

\* the ledger entries of earlier requests: a symbol seen 10 and 40 days ago
EarlierDays == {RequestDay - 40, RequestDay - 10}

\* what the ledger file can hold when the request arrives
RequestFiles ==
    {Missing, Invalid}
        \cup UNION {{Object(m) : m \in [S -> {Iso(t) : t \in EarlierDays}]}
                        : S \in SUBSET {"ABC"}}

\* what the market-data provider answers gatekeeper_node
MarketData ==
    {[raises |-> TRUE, info |-> EmptyBag]}
        \cup {[raises |-> FALSE, info |-> b] : b \in InfoBags}

Init ==
    /\ now = RequestDay
    /\ file \in RequestFiles
    /\ canRead \in BOOLEAN
    /\ canWrite \in BOOLEAN
    /\ lastOp = NoOp
    /\ ret = NoRet
    /\ MAX_RETRIES \in 0..MaxRetriesCfg
    /\ request \in Requests
    /\ pc = "START"
    /\ state = InitialState(request)
    /\ trace = <<>>
    /\ seen_list = {}
    /\ portfolio = {}
    /\ AuxOff

\* the conditional entry point
Route ==
    /\ pc = "START"
    /\ pc' = initial_routing(state)
    /\ UNCHANGED <<ledgerVars, MAX_RETRIES, request, state, trace, seen_list, portfolio>>
    /\ UNCHANGED auxVars

\* chat_node; llm.invoke answers or raises
ChatNode ==
    /\ pc = "chat"
    /\ trace' = Append(trace, "chat")
    /\ \E answered \in BOOLEAN :
          IF answered
          THEN /\ state' = [state EXCEPT !.final_report = Text("chat", state.ticker, "", ""),
                                         !.status = "CHAT"]
               /\ pc' = "END"
          ELSE /\ pc' = "RAISED"
               /\ UNCHANGED state
    /\ UNCHANGED <<ledgerVars, MAX_RETRIES, request, seen_list, portfolio>>
    /\ UNCHANGED auxVars

\* scout_node with an explicit ticker on the first pass
ScoutManual ==
    /\ pc = "scout"
    /\ is_manual(state)
    /\ trace' = Append(trace, "scout")
    /\ \E answers \in SuffixAnswers(state.region) :
          state' = [state EXCEPT
                       !.ticker = resolve_ticker_suffix(state.ticker, state.region, answers),
                       !.manual_search = TRUE]
    /\ pc' = "gatekeeper"
    /\ UNCHANGED <<ledgerVars, MAX_RETRIES, request, seen_list, portfolio>>
    /\ UNCHANGED auxVars

\* scout_node in auto-discovery: load_memory for the prompt, the search, the
\* language model's answer (or its exception), the suffix resolution
ScoutDiscover ==
    /\ pc = "scout"
    /\ ~is_manual(state)
    /\ trace' = Append(trace, "scout")
    /\ LET l == load_memory(file, canRead, canWrite, now) IN
          /\ file' = l.file
          /\ seen_list' = DOMAIN l.map
    /\ \/ /\ state' = [state EXCEPT !.ticker = "NONE", !.manual_search = FALSE]
          /\ cand' = [fn |-> "scout_node", dropped |-> <<>>]
       \/ \E raw \in RawResponses, answers \in SuffixAnswers(state.region) :
             LET ticker == extract_ticker_from_text(raw) IN
             /\ state' = [state EXCEPT
                             !.ticker = IF ticker /= "NONE"
                                        THEN resolve_ticker_suffix(ticker, state.region, answers)
                                        ELSE ticker,
                             !.manual_search = FALSE]
             /\ cand' = [fn |-> "scout_node", dropped |-> runners_up(raw)]
    /\ pc' = "gatekeeper"
    /\ UNCHANGED <<now, canRead, canWrite, lastOp, ret, MAX_RETRIES, request, portfolio>>
    /\ UNCHANGED <<procs, result, chain>>

\* gatekeeper_node on NONE, then check_status
GatekeeperNone ==
    /\ pc = "gatekeeper"
    /\ state.ticker = "NONE"
    /\ trace' = Append(trace, "gatekeeper")
    /\ state' = gatekeeper_none(state)
    /\ pc' = check_status(state', MAX_RETRIES)
    /\ UNCHANGED <<ledgerVars, MAX_RETRIES, request, seen_list, portfolio>>
    /\ UNCHANGED auxVars

\* gatekeeper_node on a ticker: mark_ticker_seen, the market data, the chart,
\* the rules; then check_status
GatekeeperTicker ==
    /\ pc = "gatekeeper"
    /\ state.ticker /= "NONE"
    /\ trace' = Append(trace, "gatekeeper")
    /\ file' = agent_mark_ticker_seen(file, canRead, canWrite, now, state.ticker).file
    /\ \E data \in MarketData, chart \in {"", state.ticker} :
          state' = gatekeeper_update(state, data, chart)
    /\ pc' = check_status(state', MAX_RETRIES)
    /\ UNCHANGED <<now, canRead, canWrite, lastOp, ret, MAX_RETRIES, request, seen_list, portfolio>>
    /\ UNCHANGED auxVars

\* analyst_node after a failed validation: the rejection verdict
AnalystReject ==
    /\ pc = "analyst"
    /\ analyst_branch(state) = "reject"
    /\ trace' = Append(trace, "analyst")
    /\ state' = [state EXCEPT !.final_verdict = rejection(state),
                              !.final_report = rejection(state)]
    /\ pc' = "END"
    /\ UNCHANGED <<ledgerVars, MAX_RETRIES, request, seen_list, portfolio>>
    /\ UNCHANGED auxVars

\* analyst_node after a passed validation: the memo of the language model
\* and the paper trade, or an exception that leaves the graph
AnalystMemo ==
    /\ pc = "analyst"
    /\ analyst_branch(state) = "memo"
    /\ trace' = Append(trace, "analyst")
    /\ IF analyst_type_error(state.financial_data.info)
       THEN /\ pc' = "RAISED"
            /\ UNCHANGED <<state, portfolio>>
       ELSE \/ /\ pc' = "RAISED"
               /\ UNCHANGED <<state, portfolio>>
            \/ \E verdict \in {"BUY", "WATCH", "AVOID"} :
                  /\ state' = [state EXCEPT
                                  !.final_verdict = Text("memo", state.ticker, verdict, state.ticker),
                                  !.final_report = Text("memo", state.ticker, verdict, state.ticker)]
                  /\ portfolio' = record_paper_trade(portfolio, state.ticker, verdict)
                  /\ pc' = "END"
    /\ UNCHANGED <<ledgerVars, MAX_RETRIES, request, seen_list>>
    /\ UNCHANGED auxVars

Next ==
    \/ Route
    \/ ChatNode
    \/ ScoutManual
    \/ ScoutDiscover
    \/ GatekeeperNone
    \/ GatekeeperTicker
    \/ AnalystReject
    \/ AnalystMemo

Spec == Init /\ [][Next]_vars

---------------------------------------------------------------------------
(* The ledger claims *)

\* a value as the implementation's own mark_ticker_seen writes it
WrittenBy(impl, e) ==
    \/ impl = "core" /\ e.fmt = "num"
    \/ impl = "agent" /\ e.fmt = "iso"

Age(e) == now - e.t

\* the last call was a load of a store that is there, opens and parses
LoadedReadable ==
    /\ lastOp.name = "load"
    /\ ret.out = "ok"
    /\ lastOp.pre.kind = "object"
    /\ canRead

C8_StoreEqualsReturned ==
    (LoadedReadable /\ lastOp.impl = "core" /\ canWrite) =>
        /\ file = Object(ret.map)
        /\ \A k \in DOMAIN lastOp.pre.entries :
              LET e == lastOp.pre.entries[k] IN
              e.fmt \in {"num", "iso"} =>
                  /\ Age(e) < MEMORY_TTL_DAYS =>
                        k \in DOMAIN file.entries /\ file.entries[k].t = e.t
                  /\ Age(e) >= MEMORY_TTL_DAYS => k \notin DOMAIN file.entries

\* load_seen_tickers rewrote a store that held an expired and an unexpired
\* entry
C8_Witness ==
    /\ LoadedReadable
    /\ lastOp.impl = "core"
    /\ canWrite
    /\ file /= lastOp.pre
    /\ DOMAIN ret.map /= {}
    /\ \E k \in DOMAIN lastOp.pre.entries :
          lastOp.pre.entries[k].fmt = "num" /\ k \notin DOMAIN file.entries

\* C9: whatever the file holds, load_seen_tickers returns a map, the empty
\* one when the store is unreadable or corrupt, and never raises.
C9_LoadNeverRaises ==
    (lastOp.name = "load" /\ lastOp.impl = "core") =>
        /\ ret.out = "ok"
        /\ (~canRead \/ lastOp.pre.kind /= "object") => ret.map = EmptyMap

\* load_seen_tickers ran on a store that is no JSON object of timestamps
C9_Witness ==
    /\ lastOp.name = "load"
    /\ lastOp.impl = "core"
    /\ canRead
    /\ \/ lastOp.pre.kind = "nonobject"
       \/ \E k \in DOMAIN lastOp.pre.entries : lastOp.pre.entries[k].fmt = "null"

\* what a load by the implementation of the last call returns now
FollowingLoad ==
    IF lastOp.impl = "core"
    THEN load_seen_tickers(file, canRead, canWrite, now)
    ELSE load_memory(file, canRead, canWrite, now)

\* the last call was mark_ticker_seen on a store that opens and parses
MarkedReadable ==
    /\ lastOp.name = "mark"
    /\ ret.out = "ok"
    /\ lastOp.pre.kind = "object"
    /\ canRead

MarkKeepsAndSets ==
    /\ FollowingLoad.out = "ok"
    /\ lastOp.ticker \in DOMAIN FollowingLoad.map
    /\ FollowingLoad.map[lastOp.ticker].t = now
    /\ \A k \in DOMAIN lastOp.pre.entries \ {lastOp.ticker} :
          LET e == lastOp.pre.entries[k] IN
          (WrittenBy(lastOp.impl, e) /\ Age(e) < MEMORY_TTL_DAYS) =>
              k \in DOMAIN FollowingLoad.map /\ FollowingLoad.map[k].t = e.t

---------------------------------------------------------------------------
(* The graph claims *)

\* the node that ran last
JustRan(node) == trace /= <<>> /\ trace[Len(trace)] = node

IsPrefix(s, t) == Len(s) <= Len(t) /\ s = SubSeq(t, 1, Len(s))

\* a request that carries an explicit ticker: non-empty, not NONE, no space
Explicit(req) == req.ticker /= "" /\ req.ticker /= "NONE" /\ ~HasSpace(req.ticker)

\* gatekeeper_node has just failed a ticker that scout_node discovered
FailedDiscovered ==
    JustRan("gatekeeper") /\ ~state.manual_search /\ state.status = "FAIL"

\* C1 as stated: with MAX_RETRIES = 1 as agent.py sets it, after a failed
\* auto-discovered validation control returns to scout if and only if the
\* incremented retry counter does not exceed MAX_RETRIES, and goes to analyst
\* exactly when it exceeds MAX_RETRIES; so a first failed validation is
\* followed by a second discovery attempt.
C1_RetryWithinMaximum ==
    (MAX_RETRIES = AGENT_MAX_RETRIES /\ FailedDiscovered) =>
        /\ pc = "scout" <=> state.retry_count <= MAX_RETRIES
        /\ pc = "analyst" <=> state.retry_count > MAX_RETRIES

\* the first failed validation of a discovered ticker under MAX_RETRIES = 1:
\* the counter is 1 and the graph is on its way to analyst
C1_Witness ==
    /\ MAX_RETRIES = AGENT_MAX_RETRIES
    /\ FailedDiscovered
    /\ trace = <<"scout", "gatekeeper">>
    /\ state.retry_count = 1
    /\ pc = "analyst"

C2_Step ==
    IF trace' = Append(trace, "gatekeeper")
    THEN /\ state'.status \in {"FAIL", "PASS"}
         /\ state'.status = "FAIL" => state'.retry_count = state.retry_count + 1
         /\ state'.status = "PASS" => state'.retry_count = state.retry_count
    ELSE state'.retry_count = state.retry_count

\* C2: every execution of gatekeeper_node that ends with status FAIL
\* increases retry_count by exactly 1, one that ends with status PASS leaves
\* it unchanged, and no step of chat, scout or analyst changes retry_count.
C2_RetryCountSteps == [][C2_Step]_vars

\* a second validation that passed after a first one that failed: the
\* counter was incremented once and then kept
C2_Witness ==
    /\ trace = <<"scout", "gatekeeper", "scout", "gatekeeper">>
    /\ state.status = "PASS"
    /\ state.retry_count = 1

\* C3: for a request with an explicit ticker and retry counter 0, scout_node
\* skips discovery (it only resolves the suffix of the ticker given and sets
\* manual_search), and after gatekeeper_node the graph goes to analyst and
\* ends there whether validation passed or failed; scout never runs a second
\* time, whatever MAX_RETRIES is.
C3_ExplicitGoesToAnalyst ==
    Explicit(request) =>
        /\ IsPrefix(trace, <<"scout", "gatekeeper", "analyst">>)
        /\ trace /= <<>> =>
              /\ state.manual_search
              /\ seen_list = {}
              /\ \E answers \in SuffixAnswers(request.region) :
                    state.ticker = resolve_ticker_suffix(request.ticker, request.region, answers)
        /\ trace = <<"scout", "gatekeeper">> => pc = "analyst"
        /\ trace = <<"scout", "gatekeeper", "analyst">> => pc \in {"END", "RAISED"}

\* an explicit ticker has failed validation with retries left, and the graph
\* is on its way to analyst
C3_Witness ==
    /\ Explicit(request)
    /\ trace = <<"scout", "gatekeeper">>
    /\ state.status = "FAIL"
    /\ state.retry_count < MAX_RETRIES
    /\ pc = "analyst"

\* what the chat path may show of the state: only chat has run, if anything,
\* the retry counter and the ticker field are the request's, and once chat
\* has run the graph is at its end with status CHAT
C4_ChatState ==
    /\ trace \in {<<>>, <<"chat">>}
    /\ pc \in {"START", "chat", "END"}
    /\ state.retry_count = 0
    /\ state.ticker = request.ticker
    /\ trace = <<"chat">> => pc = "END" /\ state.status = "CHAT"

\* C4 as stated: a request whose input text contains a space is routed to
\* chat and reaches the terminal state with status CHAT without ever
\* executing scout, gatekeeper or analyst; on that path the ledger file, the
\* retry counter and the ticker field are left unchanged.
C4_ChatPath ==
    /\ [](HasSpace(request.ticker) => C4_ChatState)
    /\ [][HasSpace(request.ticker) => file' = file]_vars

\* chat_node has run on a text with a space and the call of the language
\* model raised: the run has left the graph without a status
C4_Witness ==
    /\ HasSpace(request.ticker)
    /\ trace = <<"chat">>
    /\ pc = "RAISED"
    /\ state.status = "unset"

\* gatekeeper_node has just run on a ticker other than NONE
ValidatedTicker == JustRan("gatekeeper") /\ state.ticker /= "NONE"

\* the ledger file holds the ticker with the timestamp of now
MarkedNow(ticker) ==
    /\ file.kind = "object"
    /\ ticker \in DOMAIN file.entries
    /\ file.entries[ticker] = Iso(now)

NoneNeverWritten == file.kind = "object" => "NONE" \notin DOMAIN file.entries

\* C5 as stated: whenever gatekeeper_node has run on a ticker other than
\* NONE, the ledger holds that ticker with a current timestamp, whatever the
\* outcome; NONE is never written to the ledger.
C5_AsStated ==
    /\ ValidatedTicker => MarkedNow(state.ticker)
    /\ NoneNeverWritten

\* C5, amended: whenever gatekeeper_node has run on a ticker other than NONE
\* and the ledger file can be written, the ledger holds that ticker with a
\* current timestamp, whatever the outcome (pass, rejection or market-data
\* error); NONE is never written to the ledger.
C5_MarkedWhenWritable ==
    /\ (ValidatedTicker /\ canWrite) => MarkedNow(state.ticker)
    /\ NoneNeverWritten

\* gatekeeper_node met a market-data error on a ticker, and the ledger holds
\* the ticker with the timestamp of now
C5_Witness ==
    /\ ValidatedTicker
    /\ canWrite
    /\ state.status = "FAIL"
    /\ state.financial_data = ReasonData("api_error")
    /\ MarkedNow(state.ticker)

\* C6 as stated: in auto-discovery the ticker scout_node hands to validation
\* is never a symbol that the ledger reports as seen at that moment (marked
\* less than 30 days ago), whatever the language model returns.
C6_NeverHandsSeen ==
    (JustRan("scout") /\ ~state.manual_search /\ state.ticker /= "NONE") =>
        state.ticker \notin seen_list

\* scout_node read a ledger that holds a ticker marked 10 days ago and
\* hands that very ticker to gatekeeper_node
C6_Witness ==
    /\ trace = <<"scout">>
    /\ ~state.manual_search
    /\ pc = "gatekeeper"
    /\ state.ticker \in seen_list
    /\ MarkedNow(state.ticker) = FALSE
    /\ file.kind = "object"
    /\ state.ticker \in DOMAIN file.entries
    /\ now - file.entries[state.ticker].t = 10

---------------------------------------------------------------------------
(* Two pipeline instances inside mark_ticker_seen on the same ledger file. *)
(* A step is one access to the file: the read of the load, the write-back  *)
(* of the pruned map, the write of the map with the new ticker.            *)

Instances == {1, 2}

\* each instance marks a symbol of its own
TickerOf(p) == IF p = 1 THEN "ABC" ELSE "XYZ"

\* load_seen_tickers of core/memory.py or load_memory of agent.py
LoadOf(impl, f, r, w, n) ==
    IF impl = "core" THEN load_seen_tickers(f, r, w, n) ELSE load_memory(f, r, w, n)

\* time.time() or datetime.now(timezone.utc).isoformat()
StampOf(impl, n) == IF impl = "core" THEN Num(n) ELSE Iso(n)

RaceInit ==
    /\ now = RequestDay
    /\ file \in RequestFiles
    /\ canRead \in BOOLEAN
    /\ canWrite \in BOOLEAN
    /\ lastOp = NoOp
    /\ ret = NoRet
    /\ GraphOff
    /\ \E impl \in {"core", "agent"} :
          procs = [p \in Instances |->
                      [pc |-> "load", impl |-> impl, ticker |-> TickerOf(p),
                       mem |-> EmptyMap]]
    /\ cand = NoCand
    /\ result = NoResult
    /\ chain = NoChain

\* the load opens and parses the file and prunes what it read; a file that
\* is there and parses to an object is written back next
RaceRead(p) ==
    /\ procs[p].pc = "load"
    /\ LET l == LoadOf(procs[p].impl, file, canRead, TRUE, now)
           writes == file.kind = "object" /\ canRead /\ l.out = "ok"
       IN  procs' = [procs EXCEPT
                        ![p].mem = l.map,
                        ![p].pc = IF l.out = "raise" THEN "raised"
                                  ELSE IF writes THEN "writeback" ELSE "save"]
    /\ UNCHANGED <<ledgerVars, graphVars, cand, result, chain>>

\* the load writes the pruned map back: _save(cleaned) swallows a failure,
\* load_memory returns {} on one
RaceWriteBack(p) ==
    /\ procs[p].pc = "writeback"
    /\ file' = _save(file, procs[p].mem, canWrite)
    /\ procs' = [procs EXCEPT
                    ![p].mem = IF procs[p].impl = "agent" /\ ~canWrite
                               THEN EmptyMap ELSE procs[p].mem,
                    ![p].pc = "save"]
    /\ UNCHANGED <<now, canRead, canWrite, lastOp, ret, graphVars, cand, result, chain>>

\* data[ticker] = now, and the write of data
RaceSave(p) ==
    /\ procs[p].pc = "save"
    /\ LET data == Put(procs[p].mem, procs[p].ticker, StampOf(procs[p].impl, now)) IN
          /\ file' = _save(file, data, canWrite)
          /\ procs' = [procs EXCEPT ![p].mem = data, ![p].pc = "done"]
    /\ UNCHANGED <<now, canRead, canWrite, lastOp, ret, graphVars, cand, result, chain>>

RaceNext ==
    \/ \E p \in Instances : RaceRead(p)
    \/ \E p \in Instances : RaceWriteBack(p)
    \/ \E p \in Instances : RaceSave(p)

RaceSpec == RaceInit /\ [][RaceNext]_vars

\* both instances have returned from mark_ticker_seen
BothDone == procs /= NoProcs /\ \A p \in Instances : procs[p].pc = "done"

\* C11 as stated: when two instances mark different symbols on the same
\* readable and writable ledger file at the same time, the file holds both
\* symbols after both calls have returned.
C11_NoLostUpdate ==
    (BothDone /\ canRead /\ canWrite) =>
        /\ file.kind = "object"
        /\ \A p \in Instances : TickerOf(p) \in DOMAIN file.entries

\* both calls have returned on a readable and writable file, and the file
\* holds the symbol of one instance only
C11_Witness ==
    /\ BothDone
    /\ canRead
    /\ canWrite
    /\ file.kind = "object"
    /\ \E p \in Instances : TickerOf(p) \notin DOMAIN file.entries

---------------------------------------------------------------------------
(* The validation rules on their own: gatekeeper_node of agent.py and      *)
(* check_financial_health, each called once on a candidate.                *)

RuleTickers == {"ABC", "ABC.L"}

RulePrices == {15, 30, 31, 45, 1500, 3100}

RuleCaps == {5000000, 10000000, 10000001, 50000000, 299999999, 300000000, 400000000}

\* candidates that differ in what the rules of gatekeeper_node read
GateBags ==
    {[Bag(AllKeys, price, 2, 10, cap, 4000000, sector, fcf, 1000000, 2000000, 150, 90)
         EXCEPT !.currency = currency] :
        price \in RulePrices, cap \in RuleCaps,
        sector \in {"Industrials", "Technology", "Financial Services"},
        fcf \in {0 - 10000000, 1000000}, currency \in {"USD", "GBp"}}

\* candidates that differ in what check_financial_health reads; priceToBook
\* and currentRatio are in hundredths
HealthBags ==
    {Bag(keys, 15, eps, bv, 50000000, ebitda, sector, fcf, cash, debt, cr, pb) :
        keys \in {AllKeys, AllKeys \ {"sector"}},
        eps \in {0 - 1, 2}, bv \in {0, 10}, ebitda \in {0, 4000000},
        sector \in {"Industrials", "Technology", "Healthcare", "Financial Services"},
        fcf \in {0 - 10000000, 1000000}, cash \in {1000000, 5000000},
        debt \in {2000000, 100000000},
        cr \in {PyNone, 0, 79, 80}, pb \in {PyNone, 110, 120, 121}}

RuleCands ==
    [fn : {"pending"}, ticker : RuleTickers, info : GateBags \cup HealthBags]

\* the ledger as these calls find it
LedgerOff ==
    /\ now = RequestDay
    /\ file = Missing
    /\ canRead = TRUE
    /\ canWrite = TRUE
    /\ lastOp = NoOp
    /\ ret = NoRet

RulesInit ==
    /\ LedgerOff
    /\ GraphOff
    /\ procs = NoProcs
    /\ cand \in RuleCands
    /\ result = NoResult
    /\ chain = NoChain

\* gatekeeper_node on the candidate: the state it returns for a first
\* validation of the ticker, and the mark in the ledger
CallGatekeeperNode ==
    /\ cand.fn = "pending"
    /\ cand' = [cand EXCEPT !.fn = "gatekeeper_node"]
    /\ file' = agent_mark_ticker_seen(file, canRead, canWrite, now, cand.ticker).file
    /\ result' = gatekeeper_update(
                     InitialState([ticker |-> cand.ticker, region |-> "USA",
                                   manual_search |-> FALSE]),
                     [raises |-> FALSE, info |-> cand.info], "")
    /\ UNCHANGED <<now, canRead, canWrite, lastOp, ret, graphVars, procs, chain>>

\* check_financial_health on the candidate's attribute bag
CallCheckFinancialHealth ==
    /\ cand.fn = "pending"
    /\ cand' = [cand EXCEPT !.fn = "check_financial_health"]
    /\ result' = check_financial_health(cand.ticker, cand.info)
    /\ UNCHANGED <<ledgerVars, graphVars, procs, chain>>

RulesNext ==
    \/ CallGatekeeperNode
    \/ CallCheckFinancialHealth

RulesSpec == RulesInit /\ [][RulesNext]_vars

---------------------------------------------------------------------------
(* The claims on the validation rules *)

\* gatekeeper_node has returned for the candidate
GateCalled == cand.fn = "gatekeeper_node"

\* the price and the market cap as gatekeeper_node reads them
GatePrice == lean_info(cand.info).currentPrice
GateCap == lean_info(cand.info).marketCap

\* the rule that decided gatekeeper_node's status
GateReason ==
    IF result.status = "PASS" THEN "passed"
    ELSE IF result.financial_data.kind = "reason" THEN result.financial_data.reason
    ELSE result.final_report.kind

OutOfBand(cap) == cap <= 10000000 \/ cap >= 300000000

\* C12: gatekeeper_node applies price ceiling, market-cap band and sector
\* health in this order and the first failing rule decides the reason: a
\* price above 30 is rejected with the price reason whatever the market cap
\* and the sector fields, an acceptable price with an out-of-band market cap
\* with the market-cap reason whatever the sector fields, and the health
\* reason is reported only when price and market cap are acceptable.
C12_FirstFailingRuleDecides ==
    GateCalled =>
        LET health == check_financial_health(cand.ticker, lean_info(cand.info)) IN
        /\ GatePrice > 30 => result.status = "FAIL" /\ GateReason = "price"
        /\ (GatePrice <= 30 /\ OutOfBand(GateCap)) =>
              result.status = "FAIL" /\ GateReason = "cap"
        /\ (GatePrice <= 30 /\ ~OutOfBand(GateCap) /\ health.status = "FAIL") =>
              result.status = "FAIL" /\ GateReason = "health"
        /\ (GatePrice <= 30 /\ ~OutOfBand(GateCap) /\ health.status = "PASS") =>
              result.status = "PASS"

\* a candidate that breaks all three rules is rejected with the price reason
C12_Witness ==
    /\ GateCalled
    /\ GatePrice = 45
    /\ GateCap = 5000000
    /\ check_financial_health(cand.ticker, lean_info(cand.info)).status = "FAIL"
    /\ result.status = "FAIL"
    /\ GateReason = "price"

\* C13: the market-cap rule is a strict band: a candidate that passes the
\* price rule is rejected with the market-cap reason if and only if its cap
\* is <= 10,000,000 or >= 300,000,000, so a cap equal to the floor or to
\* the ceiling is rejected, and so is a cap of 5,000,000.
C13_StrictBand ==
    (GateCalled /\ GatePrice <= 30) =>
        (GateReason = "cap" <=> (GateCap <= 10000000 \/ GateCap >= 300000000))

\* a candidate with a cap of exactly the floor is rejected with the
\* market-cap reason
C13_Witness ==
    /\ GateCalled
    /\ GatePrice <= 30
    /\ GateCap = 10000000
    /\ result.status = "FAIL"
    /\ GateReason = "cap"

\* C14 as stated: the price of a pence-quoted symbol (suffix .L, or
\* currency GBp or GBX) is divided by 100 before it is compared with the
\* ceiling of 30: the price rule rejects exactly the candidates whose
\* normalized price is above 30, so a raw price of 1500 is not rejected by
\* the price rule.
C14_PenceNormalized ==
    GateCalled =>
        (GateReason = "price" <=>
            normalize_price(GatePrice, cand.ticker, Get(cand.info, "currency", "USD"))
                > 100 * 30)

\* a London symbol with a raw price of 1500 is rejected with the price
\* reason
C14_Witness ==
    /\ GateCalled
    /\ EndsWithL(cand.ticker)
    /\ GatePrice = 1500
    /\ result.status = "FAIL"
    /\ GateReason = "price"

\* check_financial_health has returned for the candidate
HealthCalled == cand.fn = "check_financial_health"

\* sector = info.get("sector", "Default")
SectorOf(info) == Get(info, "sector", "Default")

\* the rejecting checks that the configuration of a sector switches on
EnabledChecks(sector) ==
    LET config == SECTOR_CONFIG(sector) IN
    {c \in {"bank", "zombie", "debt"} :
        \/ c = "bank" /\ config.type = "bank"
        \/ c = "zombie" /\ config.zombie_filter
        \/ c = "debt" /\ config.check_debt /\ config.type = "standard"}

\* the check a rejection reason belongs to
CheckOf(reason) == IF reason \in {"pb", "liquidity"} THEN "bank" ELSE reason

\* the condition under which a check rejects
Rejects(c, info) ==
    \/ c = "bank" /\ (BankPbReject(info) \/ BankLiquidityReject(info))
    \/ c = "zombie" /\ ZombieReject(info)
    \/ c = "debt" /\ DebtReject(info)

\* C15: exactly one sector policy is evaluated per candidate, selected by
\* the sector name with a default fallback: one of the three rejecting
\* checks (bank, zombie filter, net debt / EBITDA) is switched on for the
\* sector, the candidate fails exactly when that check rejects it, and the
\* other two checks never reject it.
C15_OnePolicyPerCandidate ==
    HealthCalled =>
        /\ Cardinality(EnabledChecks(SectorOf(cand.info))) = 1
        /\ \A c \in EnabledChecks(SectorOf(cand.info)) :
              /\ result.status = "FAIL" <=> Rejects(c, cand.info)
              /\ result.status = "FAIL" => CheckOf(result.reason) = c

\* a bank whose cash burn and debt would fail the zombie filter and the
\* debt filter passes on its price-to-book and current ratio
C15_Witness ==
    /\ HealthCalled
    /\ SectorOf(cand.info) = "Financial Services"
    /\ Rejects("zombie", cand.info)
    /\ Rejects("debt", cand.info)
    /\ ~Rejects("bank", cand.info)
    /\ result.status = "PASS"

ListedSectors == {"Financial Services", "Technology", "Healthcare"}

\* C16 as stated: a candidate whose sector is not listed in the sector
\* table falls into the default policy, which applies no additional check:
\* it passes the sector health step whatever its debt, cash and EBITDA.
C16_DefaultPasses ==
    (HealthCalled /\ SectorOf(cand.info) \notin ListedSectors) =>
        result.status = "PASS"

\* an Industrials candidate with a total debt of 100M on an EBITDA of 4M is
\* rejected by the debt filter
C16_Witness ==
    /\ HealthCalled
    /\ SectorOf(cand.info) = "Industrials"
    /\ cand.info.totalDebt = 100000000
    /\ cand.info.ebitda = 4000000
    /\ result.status = "FAIL"
    /\ result.reason = "debt"

\* a current ratio that is present: the key is there and its value is a
\* number
Present(info, key) == key \in info.keys /\ info[key] /= PyNone

\* C17 as stated: for a Financial Services candidate check_financial_health
\* returns FAIL whenever price-to-book is above 1.2, does not fail the
\* price-to-book sub-check when it is at or below 1.2, and also fails when
\* the current ratio is present and below 0.8.
C17_BankPolicy ==
    (HealthCalled /\ SectorOf(cand.info) = "Financial Services") =>
        /\ (Present(cand.info, "priceToBook") /\ cand.info.priceToBook > 120) =>
              result.status = "FAIL"
        /\ (Present(cand.info, "priceToBook") /\ cand.info.priceToBook <= 120) =>
              result.reason /= "pb"
        /\ (Present(cand.info, "currentRatio") /\ cand.info.currentRatio < 80) =>
              result.status = "FAIL"

\* a bank with a price-to-book of 1.1 and a current ratio of 0 passes
C17_Witness ==
    /\ HealthCalled
    /\ SectorOf(cand.info) = "Financial Services"
    /\ cand.info.priceToBook = 110
    /\ Present(cand.info, "currentRatio")
    /\ cand.info.currentRatio = 0
    /\ result.status = "PASS"

\* the values trailing EPS and book value per share are varied over
AdvisoryValues == {PyNone, 0 - 1, 0, 2, 10, 40}

\* C18: the advisory intrinsic value never causes rejection: a candidate
\* that differs from the one checked only in trailing EPS and book value per
\* share (hence in Graham number and margin of safety) receives the same
\* PASS/FAIL status and the same reason from check_financial_health.
C18_AdvisoryValueNeverRejects ==
    HealthCalled =>
        \A eps \in AdvisoryValues, bv \in AdvisoryValues :
            LET other == check_financial_health(cand.ticker,
                             [cand.info EXCEPT !.trailingEps = eps, !.bookValue = bv])
            IN  other.status = result.status /\ other.reason = result.reason

\* a candidate passes with an intrinsic value below its price, as it does
\* with no intrinsic value at all
C18_Witness ==
    /\ HealthCalled
    /\ result.status = "PASS"
    /\ result.metrics.intrinsic_value > 0
    /\ result.metrics.margin_of_safety = "premium %"
    /\ LET other == check_financial_health(cand.ticker,
                         [cand.info EXCEPT !.trailingEps = 0 - 1])
       IN  other.status = "PASS" /\ other.metrics.margin_of_safety = "No Value (Unprofitable)"

---------------------------------------------------------------------------
(* src/llm.py: one invocation of invoke_with_fallback.  chain.log lists    *)
(* the attempts made so far, each with its model (an index of MODEL_CHAIN) *)
(* and what llm.invoke did: "ok", or an exception whose text holds "429",  *)
(* holds "404", or holds neither ("error").                                *)

MODEL_CHAIN ==
    << "nvidia/nemotron-3-nano-30b-a3b:free",
       "stepfun/step-3.5-flash:free",
       "arcee-ai/trinity-large-preview:free",
       "google/gemma-3-27b-it:free",
       "meta-llama/llama-3.3-70b-instruct:free",
       "mistralai/mistral-small-3.1-24b-instruct:free" >>

\* the largest max_retries an invocation is made with (the default is 2)
MaxRetriesArg == 2

\* response.content of a model
ContentOf(m) == "content of " \o MODEL_CHAIN[m]

\* the loop position after an attempt of model m that raised, 429 handled
\* like any other error
next_attempt_retrying_429(m, attempt, max_retries, answer) ==
    IF answer = "404" THEN [model |-> m + 1, attempt |-> 0]
    ELSE IF attempt < max_retries - 1 THEN [model |-> m, attempt |-> attempt + 1]
    ELSE [model |-> m + 1, attempt |-> 0]

\* the loop position after an attempt of model m that raised, with one
\* attempt fewer than max_retries
next_attempt_one_short(m, attempt, max_retries, answer) ==
    IF answer \in {"429", "404"} THEN [model |-> m + 1, attempt |-> 0]
    ELSE IF attempt < max_retries - 2 THEN [model |-> m, attempt |-> attempt + 1]
    ELSE [model |-> m + 1, attempt |-> 0]

\* the loop position after an attempt of model m that raised: break on
\* "429" and on "404", else the next attempt or, after the last one, break
next_attempt(m, attempt, max_retries, answer) ==
    IF answer \in {"429", "404"} THEN [model |-> m + 1, attempt |-> 0]
    ELSE IF attempt < max_retries - 1 THEN [model |-> m, attempt |-> attempt + 1]
    ELSE [model |-> m + 1, attempt |-> 0]

\* the invocations of one process, each a call of invoke_with_fallback
Calls == {1, 2}

\* where the loops of the call before this one stopped: on the first model
\* or past it
EndOf(c) == IF c.model = 1 THEN "first" ELSE "later"

\* the model a call starts at, resuming where the call before it stopped
first_model_sticky(last) == IF last \in 1..Len(MODEL_CHAIN) THEN last ELSE 1

\* the model a call starts at: `for model_id in MODEL_CHAIN` begins at the
\* head of the list, whatever model the call before it stopped at
first_model(last) == 1

ChainInit ==
    /\ LedgerOff
    /\ GraphOff
    /\ procs = NoProcs
    /\ cand = NoCand
    /\ result = NoResult
    /\ \E key \in BOOLEAN, max_retries \in 0..MaxRetriesArg :
          chain = [outcome |-> "called", api_key |-> key, max_retries |-> max_retries,
                   model |-> first_model(0), attempt |-> 0, log |-> <<>>, content |-> "",
                   call |-> 1, earlier |-> "none"]

\* the caller invokes invoke_with_fallback again after a call that returned
\* or raised; the loop variables of that call are gone
CallAgain ==
    /\ chain.outcome \in {"returned", "RuntimeError", "ValueError"}
    /\ chain.call + 1 \in Calls
    /\ \E key \in BOOLEAN, max_retries \in 0..MaxRetriesArg :
          chain' = [outcome |-> "called", api_key |-> key, max_retries |-> max_retries,
                    model |-> first_model(chain.model), attempt |-> 0, log |-> <<>>,
                    content |-> "", call |-> chain.call + 1, earlier |-> EndOf(chain)]
    /\ UNCHANGED <<ledgerVars, graphVars, procs, cand, result>>

\* api_key = os.getenv("OPENROUTER_API_KEY"); without it, ValueError
CheckApiKey ==
    /\ chain.outcome = "called"
    /\ chain' = [chain EXCEPT !.outcome = IF chain.api_key THEN "running" ELSE "ValueError"]
    /\ UNCHANGED <<ledgerVars, graphVars, procs, cand, result>>

\* the loops are at an attempt of a model
AtAttempt ==
    /\ chain.outcome = "running"
    /\ chain.model <= Len(MODEL_CHAIN)
    /\ chain.attempt < chain.max_retries

\* llm.invoke(prompt) answers: return response.content
AttemptReturns ==
    /\ AtAttempt
    /\ chain' = [chain EXCEPT
                    !.log = Append(chain.log, [model |-> chain.model, answer |-> "ok"]),
                    !.outcome = "returned",
                    !.content = ContentOf(chain.model)]
    /\ UNCHANGED <<ledgerVars, graphVars, procs, cand, result>>

\* llm.invoke(prompt) raises
AttemptRaises ==
    /\ AtAttempt
    /\ \E answer \in {"429", "404", "error"} :
          LET next == next_attempt(chain.model, chain.attempt, chain.max_retries, answer) IN
          chain' = [chain EXCEPT
                       !.log = Append(chain.log, [model |-> chain.model, answer |-> answer]),
                       !.model = next.model,
                       !.attempt = next.attempt]
    /\ UNCHANGED <<ledgerVars, graphVars, procs, cand, result>>

\* the end of the loops, returning an empty text where the code raises
RaiseAllFailed_returns ==
    /\ chain.outcome = "running"
    /\ chain.model > Len(MODEL_CHAIN) \/ chain.max_retries = 0
    /\ chain' = [chain EXCEPT !.outcome = "returned"]
    /\ UNCHANGED <<ledgerVars, graphVars, procs, cand, result>>

\* both loops are over: raise RuntimeError("All ... models failed")
RaiseAllFailed ==
    /\ chain.outcome = "running"
    /\ chain.model > Len(MODEL_CHAIN) \/ chain.max_retries = 0
    /\ chain' = [chain EXCEPT !.outcome = "RuntimeError"]
    /\ UNCHANGED <<ledgerVars, graphVars, procs, cand, result>>

ChainNext ==
    \/ CheckApiKey
    \/ AttemptReturns
    \/ AttemptRaises
    \/ RaiseAllFailed
    \/ CallAgain

ChainSpec == ChainInit /\ [][ChainNext]_vars

---------------------------------------------------------------------------
(* discovery/scoring.py and discovery/screener.py: the candidates of the
   screener, their score and their ranking.  Prices, price_to_book and
   current_ratio are in hundredths. *)

CandKeys == {"ticker", "price", "eps", "book_value", "free_cashflow", "ebitda",
             "total_debt", "total_cash", "current_ratio", "price_to_book"}

\* a candidate dict; .keys names the keys it holds
Cand(keys, ticker, price, eps, bv, fcf, ebitda, debt, cash, cr, pb) ==
    [keys |-> keys, ticker |-> ticker, price |-> price, eps |-> eps,
     book_value |-> bv, free_cashflow |-> fcf, ebitda |-> ebitda,
     total_debt |-> debt, total_cash |-> cash, current_ratio |-> cr,
     price_to_book |-> pb]

\* score_candidate with `if` where the code has `elif`: the tiers of one
\* factor add up
score_candidate_overlapping_tiers(candidate) ==
    LET price == Get(candidate, "price", 0)
        eps == Get(candidate, "eps", 0)
        bv == Get(candidate, "book_value", 0)
        fcf == Get(candidate, "free_cashflow", 0)
        ebitda == Get(candidate, "ebitda", 0)
        total_debt == Get(candidate, "total_debt", 0)
        total_cash == Get(candidate, "total_cash", 0)
        current_ratio == Get(candidate, "current_ratio", 0)
        pb == Get(candidate, "price_to_book", 0)
        graham == calculate_graham_number(
                      [keys |-> {"trailingEps", "bookValue"},
                       trailingEps |-> eps, bookValue |-> bv])
        net_debt == total_debt - PyOr(total_cash, 0)
        profit == IF Truthy(eps) /\ eps > 0 THEN 20 ELSE 0
        margin == IF graham > 0 /\ price > 0
                  THEN (IF 10 * (graham - price) > 3 * graham THEN 25 ELSE 0)
                       + (IF graham > price THEN (50 * (graham - price)) \div graham ELSE 0)
                  ELSE 0
        book == (IF Truthy(pb) /\ 0 < pb /\ pb < 100 THEN 15 ELSE 0)
                + (IF Truthy(pb) /\ 0 < pb /\ pb < 150 THEN 8 ELSE 0)
        cashflow == IF Truthy(fcf) /\ fcf > 0 THEN 15 ELSE 0
        debt == IF Truthy(ebitda) /\ ebitda > 0 /\ total_debt /= PyNone
                THEN (IF net_debt < ebitda THEN 10 ELSE 0)
                     + (IF 2 * net_debt < 5 * ebitda THEN 5 ELSE 0)
                ELSE 0
        liquidity == (IF Truthy(current_ratio) /\ current_ratio > 150 THEN 10 ELSE 0)
                     + (IF Truthy(current_ratio) /\ current_ratio > 100 THEN 5 ELSE 0)
        runway == IF eps <= 0 /\ Truthy(fcf) /\ fcf < 0 /\ Truthy(total_cash)
                     /\ total_cash >= 2 * (0 - fcf)
                  THEN 5 ELSE 0
        breakdown == [profit |-> profit, margin |-> margin, book |-> book,
                      cashflow |-> cashflow, debt |-> debt,
                      liquidity |-> liquidity, runway |-> runway]
    IN  [status |-> "scored", candidate |-> candidate,
         score |-> profit + margin + book + cashflow + debt + liquidity + runway,
         score_breakdown |-> breakdown]

\* score_candidate: the points of the seven factors and their sum.  margin
\* > 0.3 is 10 * (graham - price) > 3 * graham; int(margin * 50) is the
\* quotient of 50 * (graham - price) by graham; net debt / EBITDA < 2.5 is
\* 2 * net debt < 5 * EBITDA; a runway of two years is cash >= 2 * |fcf|
score_candidate(candidate) ==
    LET price == Get(candidate, "price", 0)
        eps == Get(candidate, "eps", 0)
        bv == Get(candidate, "book_value", 0)
        fcf == Get(candidate, "free_cashflow", 0)
        ebitda == Get(candidate, "ebitda", 0)
        total_debt == Get(candidate, "total_debt", 0)
        total_cash == Get(candidate, "total_cash", 0)
        current_ratio == Get(candidate, "current_ratio", 0)
        pb == Get(candidate, "price_to_book", 0)
        graham == calculate_graham_number(
                      [keys |-> {"trailingEps", "bookValue"},
                       trailingEps |-> eps, bookValue |-> bv])
        net_debt == total_debt - PyOr(total_cash, 0)
        profit == IF Truthy(eps) /\ eps > 0 THEN 20 ELSE 0
        margin == IF graham > 0 /\ price > 0
                  THEN IF 10 * (graham - price) > 3 * graham THEN 25
                       ELSE IF graham > price THEN (50 * (graham - price)) \div graham
                       ELSE 0
                  ELSE 0
        book == IF Truthy(pb) /\ 0 < pb /\ pb < 100 THEN 15
                ELSE IF Truthy(pb) /\ 0 < pb /\ pb < 150 THEN 8
                ELSE 0
        cashflow == IF Truthy(fcf) /\ fcf > 0 THEN 15 ELSE 0
        debt == IF Truthy(ebitda) /\ ebitda > 0 /\ total_debt /= PyNone
                THEN IF net_debt < ebitda THEN 10
                     ELSE IF 2 * net_debt < 5 * ebitda THEN 5
                     ELSE 0
                ELSE 0
        liquidity == IF Truthy(current_ratio) /\ current_ratio > 150 THEN 10
                     ELSE IF Truthy(current_ratio) /\ current_ratio > 100 THEN 5
                     ELSE 0
        runway == IF eps <= 0 /\ Truthy(fcf) /\ fcf < 0 /\ Truthy(total_cash)
                     /\ total_cash >= 2 * (0 - fcf)
                  THEN 5 ELSE 0
        breakdown == [profit |-> profit, margin |-> margin, book |-> book,
                      cashflow |-> cashflow, debt |-> debt,
                      liquidity |-> liquidity, runway |-> runway]
    IN  [status |-> "scored", candidate |-> candidate,
         score |-> profit + margin + book + cashflow + debt + liquidity + runway,
         score_breakdown |-> breakdown]

\* the candidates score_candidate is applied to: every field positive,
\* zero or negative, or every financial field missing
ScoreCands ==
    {Cand(CandKeys, "ABC", price, eps, bv, fcf, ebitda, debt, cash, cr, pb) :
        price \in {0, 500, 1800, 2500}, eps \in {0 - 1, 0, 2}, bv \in {0 - 5, 0, 10},
        fcf \in {0 - 1000000, 0, 1000000}, ebitda \in {0 - 1000000, 0, 4000000},
        debt \in {0, 6000000, 20000000}, cash \in {0, 5000000},
        cr \in {0, 90, 120, 200}, pb \in {0 - 50, 0, 90, 120, 200}}
      \cup {Cand({"ticker"}, "ABC", 0, 0, 0, 0, 0, 0, 0, 0, 0),
            Cand({"ticker", "price", "eps"}, "ABC", 500, 0 - 1, 0, 0, 0, 0, 0, 0, 0)}

\* the longest list rank_candidates is given and the largest top_n
MaxCands == 3
MaxTopN == 3

\* list.sort(key=score, reverse=True) that puts a candidate before the
\* candidates of equal score already placed
RECURSIVE sort_by_score_reverse_unstable(_)
sort_by_score_reverse_unstable(scored) ==
    IF scored = <<>> THEN <<>>
    ELSE LET n == Len(scored)
             c == scored[n]
             placed == sort_by_score_reverse_unstable(SubSeq(scored, 1, n - 1))
             k == Cardinality({i \in 1..(n - 1) : placed[i].score > c.score})
         IN  SubSeq(placed, 1, k) \o <<c>> \o SubSeq(placed, k + 1, n - 1)

\* scored.sort(key=lambda c: c["score"], reverse=True): descending by
\* score; Python's sort is stable, with reverse=True too, so candidates of
\* equal score keep the order they had in the list
RECURSIVE sort_by_score_reverse(_)
sort_by_score_reverse(scored) ==
    IF scored = <<>> THEN <<>>
    ELSE LET n == Len(scored)
             c == scored[n]
             placed == sort_by_score_reverse(SubSeq(scored, 1, n - 1))
             k == Cardinality({i \in 1..(n - 1) : placed[i].score >= c.score})
         IN  SubSeq(placed, 1, k) \o <<c>> \o SubSeq(placed, k + 1, n - 1)

\* rank_candidates: score every candidate, sort, return scored[:top_n]
rank_candidates(candidates, top_n) ==
    LET scored == [i \in 1..Len(candidates) |-> score_candidate(candidates[i])]
        sorted == sort_by_score_reverse(scored)
    IN  [status |-> "ranked",
         ranked |-> SubSeq(sorted, 1, IF top_n < Len(sorted) THEN top_n ELSE Len(sorted))]

\* a candidate of the ranking: A and C score 20, D 15, B 0, E 28
RankCand(ticker) ==
    Cand(CandKeys, ticker, 500,
         IF ticker \in {"A", "C", "E"} THEN 1 ELSE 0, 0,
         IF ticker = "D" THEN 1000000 ELSE 0, 0, 0, 0, 0,
         IF ticker = "E" THEN 120 ELSE 0)

\* lists of distinct candidates, in every order
RankLists ==
    UNION {{l \in [1..n -> {RankCand(t) : t \in {"A", "B", "C", "D", "E"}}] :
               \A i, j \in 1..n : i /= j => l[i] /= l[j]} : n \in 0..MaxCands}

\* screener.py: MAX_PRICE = 30.00; its MIN_MARKET_CAP and MAX_MARKET_CAP
\* have the values of agent.py's
MAX_PRICE == 30

\* the largest max_results screen_microcaps is called with
MaxResults == 2

\* _SEED_POOLS.get(region, []), one symbol standing for each list
SeedPool(region) ==
    CASE region = "USA" -> <<"ABC">>
      [] region = "UK" -> <<"ABC.L">>
      [] OTHER -> <<>>

\* extra_tickers: None, or the trending hints
ExtraTickers == {<<>>, <<"XYZ">>, <<"ABC", "XYZ">>}

\* pool = list(seed); pool.extend(t for t in extra_tickers if t not in pool)
RECURSIVE merge_pool(_, _)
merge_pool(pool, extra) ==
    IF extra = <<>> THEN pool
    ELSE merge_pool(IF \E i \in 1..Len(pool) : pool[i] = Head(extra)
                    THEN pool ELSE Append(pool, Head(extra)),
                    Tail(extra))

\* random.shuffle(pool): the orders the pool can be put in
Shuffles(pool) ==
    {q \in [1..Len(pool) -> {pool[i] : i \in 1..Len(pool)}] :
        \A i, j \in 1..Len(pool) : i /= j => q[i] /= q[j]}

\* what yf.Ticker(t).info answers the screener: a price of 15, 30, 31, 0 or
\* -5, a price missing or None, 1500, 3000 and 3100 pence, a cap at the
\* floor, at the ceiling, inside the band, None and missing
ScreenAnswers ==
    {[raises |-> TRUE, info |-> EmptyBag], [raises |-> FALSE, info |-> EmptyBag]}
        \cup {[raises |-> FALSE,
               info |-> Bag(AllKeys, price, 2, 10, cap, 4000000, "Industrials",
                            1000000, 5000000, 2000000, 150, 90)] :
                 price \in {0 - 5, 0, 15, 30, 31, PyNone},
                 cap \in {PyNone, MIN_MARKET_CAP, 50000000, MAX_MARKET_CAP}}
        \cup {[raises |-> FALSE,
               info |-> [Bag(AllKeys, price, 2, 10, 50000000, 4000000, "Industrials",
                             1000000, 5000000, 2000000, 150, 90)
                            EXCEPT !.currency = "GBp"]] :
                 price \in {1500, 3000, 3100}}

\* the dict the screener appends for a ticker that passed
ScreenCand(ticker, price, mkt_cap, currency, info) ==
    [keys |-> CandKeys \cup {"market_cap", "currency"},
     ticker |-> ticker, price |-> price, market_cap |-> mkt_cap,
     eps |-> PyOr(Get(info, "trailingEps", 0), 0),
     book_value |-> PyOr(Get(info, "bookValue", 0), 0),
     free_cashflow |-> PyOr(Get(info, "freeCashflow", 0), 0),
     total_cash |-> PyOr(Get(info, "totalCash", 0), 0),
     ebitda |-> PyOr(Get(info, "ebitda", 0), 0),
     total_debt |-> PyOr(Get(info, "totalDebt", 0), 0),
     current_ratio |-> PyOr(Get(info, "currentRatio", 0), 0),
     price_to_book |-> PyOr(Get(info, "priceToBook", 0), 0),
     currency |-> currency]

\* one pass of the screener's loop with no upper limit on the price
screen_ticker_no_price_limit(ticker, answer) ==
    LET info == answer.info
        mkt_cap == PyOr(Get(info, "marketCap", 0), 0)
        raw == PyOr(PyOr(Get(info, "currentPrice", 0),
                         Get(info, "regularMarketPrice", 0)), 0)
        currency == Get(info, "currency", "USD")
        price == normalize_price(raw, ticker, currency)
    IN  IF answer.raises THEN <<>>
        ELSE IF ~(MIN_MARKET_CAP < mkt_cap /\ mkt_cap < MAX_MARKET_CAP) THEN <<>>
        ELSE IF price <= 0 THEN <<>>
        ELSE <<ScreenCand(ticker, price, mkt_cap, currency, info)>>

\* one pass of the screener's loop: what it appends to `passed` for a
\* ticker, nothing when the provider raises or a filter says `continue`
screen_ticker(ticker, answer) ==
    LET info == answer.info
        mkt_cap == PyOr(Get(info, "marketCap", 0), 0)
        raw == PyOr(PyOr(Get(info, "currentPrice", 0),
                         Get(info, "regularMarketPrice", 0)), 0)
        currency == Get(info, "currency", "USD")
        price == normalize_price(raw, ticker, currency)
    IN  IF answer.raises THEN <<>>
        ELSE IF ~(MIN_MARKET_CAP < mkt_cap /\ mkt_cap < MAX_MARKET_CAP) THEN <<>>
        ELSE IF price <= 0 \/ price > 100 * MAX_PRICE THEN <<>>
        ELSE <<ScreenCand(ticker, price, mkt_cap, currency, info)>>

\* `except Exception: continue` leaving the loop instead
after_exception_break(pool) == <<>>

\* `except Exception: continue`: the loop goes on with the rest of the pool
after_exception(pool) == Tail(pool)

\* no symbol asked yet
NoAnswer == [ticker |-> "", answer |-> [raises |-> FALSE, info |-> EmptyBag], n_before |-> 0]

DiscoveryInit ==
    /\ LedgerOff
    /\ GraphOff
    /\ procs = NoProcs
    /\ cand \in [fn : {"pending"}, kind : {"score"}, candidate : ScoreCands]
                  \cup [fn : {"pending"}, kind : {"rank"}, candidates : RankLists,
                        top_n : 0..MaxTopN]
                  \cup [fn : {"pending"}, kind : {"screen"},
                        region : {"USA", "UK", "Japan"}, extra_tickers : ExtraTickers,
                        max_results : 0..MaxResults, pool : {<<>>},
                        asked : {0}, raised : {0}, last : {NoAnswer}]
    /\ result = NoResult
    /\ chain = NoChain

\* score_candidate(candidate)
CallScoreCandidate ==
    /\ cand.fn = "pending"
    /\ cand.kind = "score"
    /\ cand' = [cand EXCEPT !.fn = "score_candidate"]
    /\ result' = score_candidate(cand.candidate)
    /\ UNCHANGED <<ledgerVars, graphVars, procs, chain>>

\* rank_candidates(candidates, top_n)
CallRankCandidates ==
    /\ cand.fn = "pending"
    /\ cand.kind = "rank"
    /\ cand' = [cand EXCEPT !.fn = "rank_candidates"]
    /\ result' = rank_candidates(cand.candidates, cand.top_n)
    /\ UNCHANGED <<ledgerVars, graphVars, procs, chain>>

\* screen_microcaps(region, extra_tickers, max_results): the pool is built
\* and shuffled
CallScreenMicrocaps ==
    /\ cand.fn = "pending"
    /\ cand.kind = "screen"
    /\ \E pool \in Shuffles(merge_pool(SeedPool(cand.region), cand.extra_tickers)) :
          cand' = [cand EXCEPT !.fn = "screen_microcaps", !.pool = pool]
    /\ result' = [status |-> "screening", passed |-> <<>>]
    /\ UNCHANGED <<ledgerVars, graphVars, procs, chain>>

\* one pass of `for ticker in pool`, entered while len(passed) < max_results;
\* cand.last, cand.asked and cand.raised remember the provider's answer, the
\* number of symbols asked and the number of exceptions caught
ScreenTicker ==
    /\ cand.fn = "screen_microcaps"
    /\ cand.pool /= <<>>
    /\ Len(result.passed) < cand.max_results
    /\ \E answer \in ScreenAnswers :
          /\ result' = [result EXCEPT
                           !.passed = result.passed \o screen_ticker(Head(cand.pool), answer)]
          /\ cand' = [cand EXCEPT
                         !.pool = IF answer.raises THEN after_exception(cand.pool)
                                  ELSE Tail(cand.pool),
                         !.asked = cand.asked + 1,
                         !.raised = cand.raised + IF answer.raises THEN 1 ELSE 0,
                         !.last = [ticker |-> Head(cand.pool), answer |-> answer,
                                   n_before |-> Len(result.passed)]]
    /\ UNCHANGED <<ledgerVars, graphVars, procs, chain>>

\* the loop ends (pool exhausted, or break at max_results): return passed
ScreenReturn ==
    /\ cand.fn = "screen_microcaps"
    /\ cand.pool = <<>> \/ Len(result.passed) >= cand.max_results
    /\ cand' = [cand EXCEPT !.fn = "returned"]
    /\ result' = [result EXCEPT !.status = "screened"]
    /\ UNCHANGED <<ledgerVars, graphVars, procs, chain>>

DiscoveryNext ==
    \/ CallScoreCandidate
    \/ CallRankCandidates
    \/ CallScreenMicrocaps
    \/ ScreenTicker
    \/ ScreenReturn

DiscoverySpec == DiscoveryInit /\ [][DiscoveryNext]_vars

---------------------------------------------------------------------------
(* whale_hunter.py: the graph scout -> gatekeeper -> (scout | analyst |
   email) -> END run by __main__ under a SIGALRM watchdog.  The position of
   the run, the alarm and the emails sent are in `result`; state, trace and
   MAX_RETRIES are those of the graph. *)

\* check_status that gives up one failure later
whale_check_status_late(st, max) ==
    IF st.is_small_cap THEN "analyst"
    ELSE IF st.retry_count > max + 1 THEN "email"
    ELSE "scout"

\* check_status of whale_hunter.py, the conditional edge after gatekeeper
whale_check_status(st, max) ==
    IF st.is_small_cap THEN "analyst"
    ELSE IF st.retry_count > max THEN "email"
    ELSE "scout"

\* the update of every failure of whale_hunter's gatekeeper_node that does
\* not know the market cap: NONE, and the except branch
whale_no_data(st) ==
    [st EXCEPT !.is_small_cap = FALSE, !.market_cap = 0,
               !.retry_count = st.retry_count + 1]

\* gatekeeper_node of whale_hunter.py.  A cap of None raises TypeError in
\* the comparison; a cap inside the band reaches check_financial_health(
\* ticker), a call without the `info` argument the function requires, which
\* raises TypeError: both end in the except branch
whale_gatekeeper(st, data) ==
    LET mkt_cap == Get(data.info, "marketCap", 0) IN
    IF st.ticker = "NONE" THEN whale_no_data(st)
    ELSE IF data.raises \/ mkt_cap = PyNone THEN whale_no_data(st)
    ELSE IF ~(MIN_MARKET_CAP < mkt_cap /\ mkt_cap < MAX_MARKET_CAP)
    THEN [st EXCEPT !.market_cap = mkt_cap, !.is_small_cap = FALSE,
                    !.company_name = st.ticker,
                    !.retry_count = st.retry_count + 1]
    ELSE whale_no_data(st)

\* the recipients of email_node, in the order of its loop
team == <<"Cisco", "Raul", "David">>

\* what can happen to one recipient: no credentials in the environment, the
\* send succeeds, the send fails
SendOutcomes == [1..Len(team) -> {"skipped", "sent", "failed"}]

\* `for member in team` leaving the loop at the first send that fails
deliver_until_failure(outcomes) ==
    [m \in 1..Len(team) |->
        IF \E j \in 1..(m - 1) : outcomes[j] = "failed" THEN "none" ELSE outcomes[m]]

\* `for member in team`: every member is handled, a failed send is printed
deliver(outcomes) == [m \in 1..Len(team) |-> outcomes[m]]

\* the run before its first node: alarm "armed" after signal.alarm(240),
\* "none" where SIGALRM does not exist
WhaleStart(alarm) ==
    [status |-> "whale", node |-> "scout", alarm |-> alarm, fired_at |-> 0,
     sent_before |-> 0, sent |-> <<>>, asked_cap |-> 0,
     delivery |-> [m \in 1..Len(team) |-> "none"]]

WhaleInit ==
    /\ LedgerOff
    /\ MAX_RETRIES \in 0..MaxRetriesCfg
    /\ request \in [ticker : {""}, region : {"USA", "UK", "Canada"}, manual_search : {FALSE}]
    /\ pc = "OFF"
    /\ state = InitialState(request)
    /\ trace = <<>>
    /\ seen_list = {}
    /\ portfolio = {}
    /\ procs = NoProcs
    /\ cand = NoCand
    /\ result \in {WhaleStart(alarm) : alarm \in {"armed", "none"}}
    /\ chain = NoChain

WhaleAt(node) == result.status = "whale" /\ result.node = node

\* SIGALRM arrives while `node` runs inside a try whose handler catches
\* Exception: TimeoutError is swallowed there and the alarm does not come
\* again
Swallowed == [result EXCEPT !.alarm = "swallowed", !.fired_at = Len(trace) + 1,
                            !.sent_before = Len(result.sent)]

\* SIGALRM arrives outside every try of the node: TimeoutError leaves
\* app.invoke
Escaped == [result EXCEPT !.alarm = "raised", !.fired_at = Len(trace) + 1,
                          !.sent_before = Len(result.sent), !.node = "TIMEOUT"]

\* scout_node: the search and the extraction, each in a try that answers
\* NONE; the pause and the prints outside
WhaleScout ==
    /\ WhaleAt("scout")
    /\ trace' = Append(trace, "scout")
    /\ \/ /\ \/ state' = [state EXCEPT !.ticker = "NONE"]
             \/ \E raw \in RawResponses, answers \in SuffixAnswers(state.region) :
                   LET ticker == extract_ticker_from_text(raw) IN
                   state' = [state EXCEPT
                                !.ticker = IF ticker /= "NONE"
                                           THEN resolve_ticker_suffix(ticker, state.region, answers)
                                           ELSE ticker]
          /\ result' = [result EXCEPT !.node = "gatekeeper"]
       \/ /\ result.alarm = "armed"
          /\ state' = [state EXCEPT !.ticker = "NONE"]
          /\ result' = [Swallowed EXCEPT !.node = "gatekeeper"]
       \/ /\ result.alarm = "armed"
          /\ UNCHANGED state
          /\ result' = Escaped
    /\ UNCHANGED <<ledgerVars, MAX_RETRIES, request, pc, seen_list, portfolio, procs, cand, chain>>

\* the market cap the provider answered gatekeeper_node with, 0 when it was
\* not asked or raised
asked_cap(st, data) ==
    IF st.ticker = "NONE" \/ data.raises THEN 0 ELSE Get(data.info, "marketCap", 0)

\* gatekeeper_node, then check_status; result.asked_cap remembers the market
\* cap the provider answered
WhaleGatekeeper ==
    /\ WhaleAt("gatekeeper")
    /\ trace' = Append(trace, "gatekeeper")
    /\ \/ \E data \in MarketData :
             /\ state' = whale_gatekeeper(state, data)
             /\ result' = [result EXCEPT !.node = whale_check_status(state', MAX_RETRIES),
                                         !.asked_cap = asked_cap(state, data)]
       \/ /\ result.alarm = "armed"
          /\ state.ticker /= "NONE"
          /\ state' = whale_no_data(state)
          /\ result' = [Swallowed EXCEPT !.node = whale_check_status(state', MAX_RETRIES),
                                         !.asked_cap = 0]
       \/ /\ result.alarm = "armed"
          /\ UNCHANGED state
          /\ result' = Escaped
    /\ UNCHANGED <<ledgerVars, MAX_RETRIES, request, pc, seen_list, portfolio, procs, cand, chain>>

\* the report email_node sends
Report(st) == IF st.is_small_cap THEN "analysis" ELSE "failure"

\* email_node: the failure report or the analysis, each send in a try; an
\* alarm swallowed there makes the send it interrupts fail
WhaleEmail ==
    /\ WhaleAt("email")
    /\ trace' = Append(trace, "email")
    /\ \/ \E outcomes \in SendOutcomes :
             result' = [result EXCEPT !.node = "END",
                                      !.sent = Append(result.sent, Report(state)),
                                      !.delivery = deliver(outcomes)]
       \/ /\ result.alarm = "armed"
          /\ \E outcomes \in SendOutcomes :
                /\ \E m \in 1..Len(team) : outcomes[m] = "failed"
                /\ result' = [Swallowed EXCEPT !.node = "END",
                                               !.sent = Append(result.sent, Report(state)),
                                               !.delivery = deliver(outcomes)]
       \/ /\ result.alarm = "armed"
          /\ result' = Escaped
    /\ UNCHANGED <<ledgerVars, MAX_RETRIES, request, pc, state, seen_list, portfolio, procs, cand, chain>>

\* __main__: except TimeoutError sends the timeout notification
WhaleTimeout ==
    /\ WhaleAt("TIMEOUT")
    /\ result' = [result EXCEPT !.node = "ABORTED",
                                !.sent = Append(result.sent, "timeout")]
    /\ UNCHANGED <<ledgerVars, graphVars, procs, cand, chain>>

WhaleNext ==
    \/ WhaleScout
    \/ WhaleGatekeeper
    \/ WhaleEmail
    \/ WhaleTimeout

WhaleSpec == WhaleInit /\ [][WhaleNext]_vars

\* a request to either graph
GraphsInit == Init \/ WhaleInit

GraphsNext == Next \/ WhaleNext

GraphsSpec == GraphsInit /\ [][GraphsNext]_vars

---------------------------------------------------------------------------
(* The claims on failures of the collaborators of the agent.py graph *)

\* the run has left the graph with the exception of a call of the language
\* model: chat_node raises nothing else, and analyst_node raises TypeError
\* before the call when a metric is None
ModelErrorEscaped ==
    /\ pc = "RAISED"
    /\ \/ JustRan("chat")
       \/ JustRan("analyst") /\ ~analyst_type_error(state.financial_data.info)

\* C22: when the language model fails during analyst_node or chat_node, the
\* node does not let the error abort the request: the request completes
\* with a final report (the raw metrics and an analysis-unavailable marker).
C22_ModelFailureDegrades ==
    /\ ~ModelErrorEscaped
    /\ (pc = "END" /\ (JustRan("chat") \/ JustRan("analyst"))) =>
          state.final_report /= NoText

\* analyst_node ran on a validated ticker, the call of the language model
\* raised, and the run left the graph with no report and no verdict
C22_Witness ==
    /\ JustRan("analyst")
    /\ state.status = "PASS"
    /\ ~analyst_type_error(state.financial_data.info)
    /\ pc = "RAISED"
    /\ state.final_report = NoText
    /\ state.final_verdict = NoText

\* the state carries a human-readable reason of the failure that
\* gatekeeper_node has just returned: financial_data.reason, or the
\* final_report of a rule on this ticker
FailureReason ==
    \/ state.financial_data.kind = "reason" /\ state.financial_data.reason /= ""
    \/ /\ state.financial_data.kind = "info"
       /\ state.final_report.kind \in {"price", "cap", "health"}
       /\ state.final_report.about = state.ticker

\* C23: whatever the market-data collaborator does (raise, return an empty
\* bag, return a null price or market cap), gatekeeper_node returns a state
\* update with status PASS or FAIL and, on FAIL, a human-readable reason; no
\* exception leaves the node.
C23_StructuredOutcome ==
    JustRan("gatekeeper") =>
        /\ pc \in {"scout", "analyst"}
        /\ state.status \in {"PASS", "FAIL"}
        /\ state.status = "FAIL" => FailureReason

\* gatekeeper_node ran on a ticker whose market data raised or held a null
\* price or cap: status FAIL with the API-error reason, and the graph goes on
C23_Witness ==
    /\ JustRan("gatekeeper")
    /\ state.ticker /= "NONE"
    /\ state.status = "FAIL"
    /\ state.financial_data = ReasonData("api_error")
    /\ state.final_report = NoText
    /\ pc = "analyst"

\* the candidates that the discovery pass before this one found after the
\* one it returned, and that the ledger does not hold
Backlog(seen) ==
    IF cand.fn = "scout_node"
    THEN SelectSeq(cand.dropped, LAMBDA t : t \notin seen)
    ELSE <<>>

\* scout_node runs in auto-discovery on a retry pass
RetryPass == pc = "scout" /\ ~is_manual(state) /\ state.retry_count > 0

\* C28: on a retry pass of auto-discovery, when backup candidates remain
\* from the previous discovery pass, scout_node takes the next of them that
\* is not in the exclusion ledger and runs no full discovery; a full
\* discovery runs only when no backup candidate remains.
C28_BacklogBeforeDiscovery ==
    [][(RetryPass /\ Backlog(seen_list') /= <<>>) =>
           /\ state'.ticker = Head(Backlog(seen_list'))
           /\ cand'.dropped = Tail(cand.dropped)]_vars

\* the first discovery pass found ABC and XYZ and handed on ABC, which
\* failed; the retry pass ran a full discovery again and found nothing,
\* although XYZ was waiting
C28_Witness ==
    /\ trace = <<"scout", "gatekeeper", "scout">>
    /\ state.retry_count = 1
    /\ state.ticker = "NONE"
    /\ cand = [fn |-> "scout_node", dropped |-> <<>>]
    /\ "XYZ" \notin seen_list

\* the watchdog of the whale_hunter run has fired
Fired == result.status = "whale" /\ result.alarm \in {"swallowed", "raised"}

\* C27: if the wall-clock watchdog fires at any point of a whale_hunter run,
\* also inside a node's own try/except, the run is aborted: the node it
\* fired in is the last to execute, no normal report is sent after it, and
\* the run ends with a timeout notification.
C27_WatchdogAborts ==
    Fired =>
        /\ Len(trace) = result.fired_at
        /\ \A i \in (result.sent_before + 1)..Len(result.sent) : result.sent[i] = "timeout"
        /\ result.node \in {"TIMEOUT", "ABORTED"}
        /\ result.node = "ABORTED" =>
              result.sent /= <<>> /\ result.sent[Len(result.sent)] = "timeout"

\* the alarm came during scout_node's search, was swallowed there, and the
\* run went on through gatekeeper and email to its normal end with the
\* failure report and no timeout notification
C27_Witness ==
    /\ result.status = "whale"
    /\ result.alarm = "swallowed"
    /\ result.fired_at = 1
    /\ trace = <<"scout", "gatekeeper", "email">>
    /\ result.node = "END"
    /\ result.sent = <<"failure">>

\* how many times `node` has executed in this request
Executions(node) == Cardinality({i \in 1..Len(trace) : trace[i] = node})

\* C29: in both graphs (agent.py and whale_hunter.py) scout_node executes
\* at most MAX_RETRIES + 1 times within one request, whatever the search,
\* the model and the market data answer; every return to scout follows a
\* failed validation that raised retry_count.
C29_ScoutBounded ==
    /\ Executions("scout") <= MAX_RETRIES + 1
    /\ Executions("scout") <= state.retry_count + 1
    /\ Executions("gatekeeper") <= Executions("scout")

\* a whale_hunter run with MAX_RETRIES = 1 that failed twice: scout_node
\* executed twice, the most allowed, and the failure report went out
C29_Witness ==
    /\ result.status = "whale"
    /\ MAX_RETRIES = 1
    /\ Executions("scout") = 2
    /\ state.retry_count = 2
    /\ result.node = "END"
    /\ result.sent = <<"failure">>

\* an agent.py request with MAX_RETRIES = 2 whose two discovered tickers
\* failed: scout_node executed twice and the graph went on to analyst
C29_AgentWitness ==
    /\ pc = "analyst"
    /\ MAX_RETRIES = 2
    /\ Executions("scout") = 2
    /\ state.retry_count = 2
    /\ ~state.manual_search

\* C30: every request to either graph reaches the terminal state END when
\* every collaborator call returns or raises: no run leaves its graph with
\* an exception, and the scout-gatekeeper loop is bounded because each pass
\* that does not lead on raises retry_count.  (The watchdog of whale_hunter
\* is a wall-clock abort, not a collaborator outcome.)
C30_EveryRequestReachesEnd ==
    /\ pc /= "RAISED"
    /\ Len(trace) <= 2 * (MAX_RETRIES + 1) + 2
    /\ (result.status = "whale" /\ ~Fired) =>
          result.node \in {"scout", "gatekeeper", "email", "END"}
    /\ (pc = "scout" /\ trace /= <<>>) => state.retry_count * 2 = Len(trace)

\* an agent.py request that looped once through scout and gatekeeper,
\* passed on the second ticker, and left the graph with the exception of
\* analyst_node's call of the language model
C30_Witness ==
    /\ trace = <<"scout", "gatekeeper", "scout", "gatekeeper", "analyst">>
    /\ state.retry_count = 1
    /\ state.status = "PASS"
    /\ ~analyst_type_error(state.financial_data.info)
    /\ pc = "RAISED"

---------------------------------------------------------------------------
(* The claims on invoke_with_fallback *)

\* the attempts made on model m so far, as positions of the log
AttemptsOf(m) == {i \in 1..Len(chain.log) : chain.log[i].model = m}

\* the invocation returned the content of the model it attempted last
ReturnedLast ==
    /\ chain.log /= <<>>
    /\ chain.log[Len(chain.log)].answer = "ok"
    /\ chain.content = ContentOf(chain.log[Len(chain.log)].model)

\* C19 as stated: a model whose response is a rate-limit (429) or not-found
\* (404) error is attempted exactly once in that invocation and the chain
\* moves to the next model; a returned text is the output of the model that
\* succeeded.
C19_AsStated ==
    /\ \A i \in 1..Len(chain.log) :
          chain.log[i].answer \in {"429", "404"} =>
              /\ AttemptsOf(chain.log[i].model) = {i}
              /\ i < Len(chain.log) => chain.log[i + 1].model = chain.log[i].model + 1
    /\ chain.outcome = "returned" => ReturnedLast

\* C19, amended: a model that answers with a rate-limit (429) or not-found
\* (404) error is not attempted again in that invocation and the next attempt
\* is made on the next model of the chain; when that error is the model's
\* first response, the model is attempted exactly once; a text that is
\* returned is the output of the model that succeeded, so if A is
\* rate-limited and B then succeeds it is B's output.
C19_RateLimitedMovesOn ==
    /\ \A i \in 1..Len(chain.log) :
          chain.log[i].answer \in {"429", "404"} =>
              /\ \A j \in 1..Len(chain.log) :
                    j > i => chain.log[j].model > chain.log[i].model
              /\ i < Len(chain.log) => chain.log[i + 1].model = chain.log[i].model + 1
              /\ (\A j \in 1..(i - 1) : chain.log[j].model /= chain.log[i].model) =>
                    AttemptsOf(chain.log[i].model) = {i}
              /\ chain.outcome = "running" => chain.model > chain.log[i].model
    /\ chain.outcome = "returned" => ReturnedLast

\* the first model was rate-limited once, the second answered, and its
\* content was returned
C19_Witness ==
    /\ chain.outcome = "returned"
    /\ chain.log = << [model |-> 1, answer |-> "429"], [model |-> 2, answer |-> "ok"] >>
    /\ chain.content = ContentOf(2)
    /\ chain.max_retries = 2

\* model m has no attempt left: it answered 429 or 404, or it raised on
\* the last of its max_retries attempts
Exhausted(m) ==
    \/ chain.max_retries = 0
    \/ /\ AttemptsOf(m) /= {}
       /\ \A i \in AttemptsOf(m) : chain.log[i].answer /= "ok"
       /\ \/ \E i \in AttemptsOf(m) : chain.log[i].answer \in {"429", "404"}
          \/ Cardinality(AttemptsOf(m)) = chain.max_retries

C20_State ==
    /\ Len(chain.log) <= Len(MODEL_CHAIN) * chain.max_retries
    /\ chain.outcome = "RuntimeError" =>
          /\ Len(MODEL_CHAIN) = 6
          /\ \A m \in 1..Len(MODEL_CHAIN) : Exhausted(m)
          /\ chain.content = ""
    /\ chain.outcome = "returned" => ReturnedLast
    /\ (chain.outcome = "running" /\ \A m \in 1..Len(MODEL_CHAIN) : Exhausted(m)) =>
          chain.model > Len(MODEL_CHAIN) \/ chain.max_retries = 0

C20_Step ==
    (chain.outcome = "running" /\ \A m \in 1..Len(MODEL_CHAIN) : Exhausted(m)) =>
        chain'.outcome = "RuntimeError"

\* C20: if every model of the 6-model chain fails on all of its attempts,
\* invoke_with_fallback raises the all-models-failed RuntimeError after at
\* most 6 * max_retries attempts and returns no text; it raises that error
\* only then, and a text is returned only from an attempt that succeeded.
C20_AllFailedRaises == [](C20_State) /\ [][C20_Step]_vars

\* all six models answered rate-limited, one attempt each, and the
\* invocation raised
C20_Witness ==
    /\ chain.outcome = "RuntimeError"
    /\ Len(chain.log) = 6
    /\ \A i \in 1..6 : chain.log[i] = [model |-> i, answer |-> "429"]
    /\ chain.content = ""

\* every attempt allowed on model m was made and failed before position i
\* of the log
FailedBefore(m, i) ==
    LET before == {j \in AttemptsOf(m) : j < i} IN
    /\ before /= {}
    /\ \A j \in before : chain.log[j].answer /= "ok"
    /\ \/ \E j \in before : chain.log[j].answer \in {"429", "404"}
       \/ Cardinality(before) = chain.max_retries

\* C21: every call of invoke_with_fallback starts at the first model of
\* the chain whatever happened in earlier calls; whenever an attempt has
\* been made on model k, every attempt allowed on models 1..k-1 was made
\* and failed before it in this call; the call returns the content of its
\* first successful attempt and attempts nothing after it.  (Every entry of
\* the log was its last entry in the state after that attempt.)
C21_RestartsInChainOrder ==
    LET n == Len(chain.log) IN
    /\ (chain.outcome \in {"called", "running"} /\ n = 0) =>
          chain.model = 1 /\ chain.attempt = 0
    /\ n > 0 =>
          /\ chain.log[1].model = 1
          /\ \A m \in 1..(chain.log[n].model - 1) : FailedBefore(m, n)
          /\ chain.log[n].answer = "ok" <=> chain.outcome = "returned"
          /\ n > 1 => chain.log[n - 1].answer /= "ok"
    /\ chain.outcome = "returned" => ReturnedLast

\* the first call returned from a model after the first, and the second
\* call made its first attempt on the first model again
C21_Witness ==
    /\ chain.call = 2
    /\ chain.earlier = "later"
    /\ Len(chain.log) = 3
    /\ chain.log[1] = [model |-> 1, answer |-> "error"]
    /\ chain.log[3] = [model |-> 2, answer |-> "ok"]
    /\ chain.outcome = "returned"

---------------------------------------------------------------------------
(* The claims on scoring, ranking and screening *)

ScoreCalled == cand.fn = "score_candidate"

\* the most points each factor can give
FactorMax ==
    [profit |-> 20, margin |-> 25, book |-> 15, cashflow |-> 15, debt |-> 10,
     liquidity |-> 10, runway |-> 5]

\* C24: for every candidate (field values positive, zero, negative or
\* missing) score_candidate yields an integer score with 0 <= score <= 100:
\* each factor gives between 0 and its maximum because its tiers exclude
\* each other, and the +5 runway bonus (eps <= 0) never combines with the
\* +20 profitability points or with Graham-margin points (eps > 0).
C24_ScoreWithinRange ==
    ScoreCalled =>
        /\ result.score \in 0..100
        /\ \A f \in DOMAIN FactorMax : result.score_breakdown[f] \in 0..FactorMax[f]
        /\ result.score_breakdown.runway > 0 =>
              result.score_breakdown.profit = 0 /\ result.score_breakdown.margin = 0

\* a profitable candidate with the top tier of every factor it can have:
\* 95 points, no runway bonus
C24_Witness ==
    /\ ScoreCalled
    /\ result.score = 95
    /\ result.score_breakdown.runway = 0
    /\ result.score_breakdown.margin = 25

\* an unprofitable candidate with two years of cash gets the runway bonus
\* and no profitability or Graham points
C24_RunwayWitness ==
    /\ ScoreCalled
    /\ result.score_breakdown.runway = 5
    /\ result.score > 5

RankCalled == cand.fn = "rank_candidates"

\* the place of a returned candidate in the list rank_candidates was given
DiscoveryOrder(c) ==
    CHOOSE i \in 1..Len(cand.candidates) : cand.candidates[i] = c.candidate

\* the candidates of the input that were not returned
LeftOut ==
    {cand.candidates[i] : i \in 1..Len(cand.candidates)}
        \ {result.ranked[i].candidate : i \in 1..Len(result.ranked)}

\* C25: rank_candidates returns at most top_n candidates of its input,
\* ordered by non-increasing score, candidates of equal score in their
\* discovery (input) order, and every returned candidate has a score no
\* lower than any candidate left out.
C25_RankedTopN ==
    RankCalled =>
        LET out == result.ranked IN
        /\ Len(out) <= cand.top_n
        /\ Len(out) = cand.top_n \/ Len(out) = Len(cand.candidates)
        /\ \A i \in 1..Len(out) :
              /\ \E k \in 1..Len(cand.candidates) : cand.candidates[k] = out[i].candidate
              /\ out[i].score = score_candidate(out[i].candidate).score
              /\ \A c \in LeftOut : score_candidate(c).score <= out[i].score
        /\ \A i, j \in 1..Len(out) :
              i < j =>
                 /\ out[i].score >= out[j].score
                 /\ out[i].score = out[j].score =>
                       DiscoveryOrder(out[i]) < DiscoveryOrder(out[j])

\* C was discovered before A, both score 20 and D less: the top two are C
\* then A, and D is left out
C25_Witness ==
    /\ RankCalled
    /\ cand.top_n = 2
    /\ cand.candidates = <<RankCand("D"), RankCand("C"), RankCand("A")>>
    /\ Len(result.ranked) = 2
    /\ result.ranked[1].candidate.ticker = "C"
    /\ result.ranked[2].candidate.ticker = "A"
    /\ result.ranked[1].score = 20

\* C26: every candidate returned by screen_microcaps, from the seed list
\* or from the trending hints, has a normalized price in (0, 30] and a
\* market cap strictly between 10,000,000 and 300,000,000, and the result
\* never has more than max_results entries.
C26_ScreenedWithinLimits ==
    (cand.fn \in {"screen_microcaps", "returned"}) =>
        /\ Len(result.passed) <= cand.max_results
        /\ \A i \in 1..Len(result.passed) :
              /\ 0 < result.passed[i].price
              /\ result.passed[i].price <= 3000
              /\ 10000000 < result.passed[i].market_cap
              /\ result.passed[i].market_cap < 300000000
              /\ result.passed[i].ticker \in
                    {"ABC", "ABC.L"} \cup {cand.extra_tickers[k] : k \in 1..Len(cand.extra_tickers)}

\* the screener returned two candidates, the trending hint XYZ at the top
\* price of 30.00 and the seed ABC at 15.00 pounds quoted as 1500 pence
C26_Witness ==
    /\ cand.fn = "returned"
    /\ cand.max_results = 2
    /\ Len(result.passed) = 2
    /\ result.passed[1].ticker = "XYZ"
    /\ result.passed[1].price = 3000
    /\ result.passed[2].ticker = "ABC"
    /\ result.passed[2].price = 1500
    /\ result.passed[2].currency = "GBp"

---------------------------------------------------------------------------
(* The attempts of invoke_with_fallback *)

\* the chain has moved on from model m, all of whose attempts raised an
\* error that is neither rate-limit nor not-found
GaveUpOn(m) ==
    /\ \A i \in AttemptsOf(m) : chain.log[i].answer = "error"
    /\ chain.model > m

\* C31: a model that keeps failing with errors other than rate-limit and
\* not-found is attempted exactly max_retries times before the chain moves
\* on; no model is attempted more than max_retries times; one invocation
\* makes at most len(MODEL_CHAIN) * max_retries attempts.  The log only
\* grows by one entry at its end, so the counts are taken for the model
\* attempted last: every model of the log was once that model.
C31_AttemptsBounded ==
    LET n == Len(chain.log) IN
    /\ n <= Len(MODEL_CHAIN) * chain.max_retries
    /\ n > 0 =>
          LET m == chain.log[n].model IN
          /\ m \in 1..Len(MODEL_CHAIN)
          /\ Cardinality(AttemptsOf(m)) <= chain.max_retries
          /\ GaveUpOn(m) => Cardinality(AttemptsOf(m)) = chain.max_retries

\* with max_retries = 2 the first model raised another error twice, the
\* chain moved on, and the second model answered
C31_Witness ==
    /\ chain.max_retries = 2
    /\ chain.log = << [model |-> 1, answer |-> "error"], [model |-> 1, answer |-> "error"],
                      [model |-> 2, answer |-> "ok"] >>
    /\ chain.outcome = "returned"

---------------------------------------------------------------------------
(* resolve_ticker_suffix called on its own *)

SuffixRegions == {"USA", "UK", "Canada", "Australia", "Germany"}

\* the calls: a raw or an already suffixed symbol, a region, and what the
\* market-data provider answers for each candidate of the region
SuffixCands ==
    UNION {[fn : {"pending"}, raw_ticker : Symbols \cup Dotted, region : {region},
            answers : SuffixAnswers(region)] : region \in SuffixRegions}

SuffixInit ==
    /\ LedgerOff
    /\ GraphOff
    /\ procs = NoProcs
    /\ cand \in SuffixCands
    /\ result = NoResult
    /\ chain = NoChain

CallResolveTickerSuffix ==
    /\ cand.fn = "pending"
    /\ cand' = [cand EXCEPT !.fn = "resolve_ticker_suffix"]
    /\ result' = [status |-> "resolved",
                  ticker |-> resolve_ticker_suffix(cand.raw_ticker, cand.region, cand.answers)]
    /\ UNCHANGED <<ledgerVars, graphVars, procs, chain>>

SuffixNext == CallResolveTickerSuffix

SuffixSpec == SuffixInit /\ [][SuffixNext]_vars

\* the provider reports a positive market cap for the i-th suffix of the
\* region and for none before it
FirstValid(i) ==
    LET suffixes == REGION_SUFFIXES(cand.region) IN
    /\ cand.answers[suffixes[i]] = "positive"
    /\ \A j \in 1..(i - 1) : cand.answers[suffixes[j]] /= "positive"

\* C33: resolve_ticker_suffix returns the raw symbol extended with the first
\* suffix, in the region's priority order, for which the provider reports a
\* positive market cap (.TO before .V for Canada), a provider error on one
\* suffix not stopping the next; the raw symbol comes back unchanged when
\* no suffix qualifies, when the region needs no suffix, and when the
\* symbol already contains a dot.
C33_FirstValidSuffix ==
    cand.fn = "resolve_ticker_suffix" =>
        LET suffixes == REGION_SUFFIXES(cand.region)
            plain == HasDot(cand.raw_ticker) \/ suffixes = <<"">>
        IN  /\ plain => result.ticker = cand.raw_ticker
            /\ ~plain =>
                  /\ \A i \in 1..Len(suffixes) :
                        FirstValid(i) => result.ticker = cand.raw_ticker \o suffixes[i]
                  /\ (\A i \in 1..Len(suffixes) : ~FirstValid(i)) =>
                        result.ticker = cand.raw_ticker
            /\ (cand.region = "Canada" /\ ~HasDot(cand.raw_ticker)
                  /\ cand.answers[".TO"] = "positive" /\ cand.answers[".V"] = "positive") =>
                  result.ticker = cand.raw_ticker \o ".TO"

\* for Canada the provider raised on ABC.TO and reported a positive market
\* cap for ABC.V
C33_Witness ==
    /\ cand.fn = "resolve_ticker_suffix"
    /\ cand.raw_ticker = "ABC"
    /\ cand.region = "Canada"
    /\ cand.answers[".TO"] = "raise"
    /\ cand.answers[".V"] = "positive"
    /\ result.ticker = "ABC.V"

---------------------------------------------------------------------------
(* Market-data failures inside screen_microcaps *)

\* the provider failed for the symbol: it raised, or it answered without a
\* market cap or without a price
ScreenFailure(a) ==
    \/ a.raises
    \/ Get(a.info, "marketCap", PyNone) = PyNone
    \/ Get(a.info, "currentPrice", PyNone) = PyNone

\* the answer satisfies the price and market-cap filter
SatisfiesFilter(ticker, a) ==
    /\ ~ScreenFailure(a)
    /\ 10000000 < a.info.marketCap
    /\ a.info.marketCap < 300000000
    /\ 0 < a.info.currentPrice
    /\ normalize_price(a.info.currentPrice, ticker, a.info.currency) <= 3000

\* C32: in screen_microcaps a market-data failure for one symbol (exception
\* or missing fields) only skips that symbol: the loop goes on, what had
\* passed stays, a later symbol that satisfies the price and market-cap
\* filter is appended, and the function returns only when max_results
\* symbols have passed or every symbol of the pool has been asked.
C32_FailureSkipsOneSymbol ==
    (cand.fn \in {"screen_microcaps", "returned"}) =>
        LET pool == merge_pool(SeedPool(cand.region), cand.extra_tickers)
            n == Len(result.passed)
        IN  /\ cand.asked + Len(cand.pool) = Len(pool)
            /\ cand.asked > 0 =>
                  /\ ScreenFailure(cand.last.answer) => n = cand.last.n_before
                  /\ SatisfiesFilter(cand.last.ticker, cand.last.answer) =>
                        /\ n = cand.last.n_before + 1
                        /\ result.passed[n].ticker = cand.last.ticker
            /\ cand.fn = "returned" =>
                  \/ n >= cand.max_results
                  \/ cand.asked = Len(pool)
            /\ result.status \in {"screening", "screened"}

\* the provider raised for the first symbol of the pool and the second
\* symbol, which satisfies the filter, was returned
C32_Witness ==
    /\ cand.fn = "returned"
    /\ cand.asked = 2
    /\ cand.raised = 1
    /\ cand.last.n_before = 0
    /\ SatisfiesFilter(cand.last.ticker, cand.last.answer)
    /\ Len(result.passed) = 1
    /\ cand.max_results = 2

---------------------------------------------------------------------------
(* The gate and the report of the whale_hunter graph *)

\* gatekeeper_node has just run, undisturbed by the watchdog, on a ticker
\* whose market cap the provider gave as strictly between 10M and 300M
InBandPass ==
    /\ WhaleAt("gatekeeper")
    /\ result'.alarm = result.alarm
    /\ 10000000 < result'.asked_cap
    /\ result'.asked_cap < 300000000

\* C34: in the whale_hunter graph market cap is the only hard gate: a
\* discovered ticker whose market cap is strictly between 10M and 300M is
\* accepted (is_small_cap true, retry counter not incremented) and passed
\* to the analyst, whatever the financial-health check reports.
C34_CapIsTheOnlyGate ==
    [][InBandPass =>
          /\ state'.is_small_cap
          /\ state'.retry_count = state.retry_count
          /\ result'.node = "analyst"]_vars

\* a ticker with a market cap of 50M was rejected: not accepted, the retry
\* counter raised, and the run ended with the failure report
C34_Witness ==
    /\ result.status = "whale"
    /\ result.alarm = "armed"
    /\ result.asked_cap = 50000000
    /\ trace = <<"scout", "gatekeeper", "email">>
    /\ ~state.is_small_cap
    /\ state.retry_count = 1
    /\ result.sent = <<"failure">>

---------------------------------------------------------------------------
(* The attribute bag gatekeeper_node hands to the health check *)

\* C36: gatekeeper_node rejects every candidate that check_financial_health
\* rejects when given the provider's full attribute bag (price-to-book,
\* current ratio, total debt and currency included): such a candidate ends
\* validation with status FAIL.
C36_RejectsWhatHealthRejects ==
    (GateCalled /\ check_financial_health(cand.ticker, cand.info).status = "FAIL") =>
        result.status = "FAIL"

\* a Financial Services candidate at 15.00 with a market cap of 50M and a
\* price-to-book above 1.2, which the health check rejects on the full bag,
\* passed gatekeeper_node
C36_Witness ==
    /\ GateCalled
    /\ cand.ticker = "ABC"
    /\ cand.info.sector = "Financial Services"
    /\ cand.info.priceToBook = 121
    /\ cand.info.currentPrice = 15
    /\ cand.info.marketCap = 50000000
    /\ check_financial_health(cand.ticker, cand.info).status = "FAIL"
    /\ check_financial_health(cand.ticker, lean_info(cand.info)).status = "PASS"
    /\ result.status = "PASS"
    /\ result.is_small_cap

---------------------------------------------------------------------------
(* What analyst_node does with a failed validation *)

\* C37: a ticker whose validation status is FAIL is never analysed as a buy
\* candidate: analyst_node with status FAIL returns the rejection report
\* without the language model (no memo, no exception of the model) and
\* without record_paper_trade, so a paper trade is only recorded for a
\* ticker whose last validation status is PASS.
C37_FailedNeverTraded ==
    /\ portfolio /= {} =>
          /\ portfolio = {state.ticker}
          /\ state.status = "PASS"
          /\ pc = "END"
    /\ (state.status = "FAIL" /\ pc \in {"END", "RAISED"}) =>
          /\ pc = "END"
          /\ trace[Len(trace)] = "analyst"
          /\ state.final_report.kind = "rejected"
          /\ state.final_verdict = state.final_report
          /\ portfolio = {}

\* the market data could not be read for the requested ticker: analyst_node
\* ran with status FAIL and no report at hand, returned the rejection, and
\* nothing was recorded
C37_Witness ==
    /\ pc = "END"
    /\ trace = <<"scout", "gatekeeper", "analyst">>
    /\ state.status = "FAIL"
    /\ state.financial_data = ReasonData("api_error")
    /\ state.final_report.kind = "rejected"
    /\ state.final_report.whyKind = "api_error"
    /\ portfolio = {}

\* the request has ended at analyst_node with status FAIL
EndedRejected ==
    /\ pc = "END"
    /\ state.status = "FAIL"
    /\ trace /= <<>>
    /\ trace[Len(trace)] = "analyst"

\* C38: for any configured MAX_RETRIES, when a request ends at analyst_node
\* with status FAIL, the rejection reason, the company name, the chart and
\* the financial data of the final state are those of the last gatekeeper
\* pass on the final active ticker: nothing written by an earlier attempt
\* on a different ticker survives into the report.
C38_ReportOfLastPass ==
    EndedRejected =>
        /\ state.final_report.kind = "rejected"
        /\ state.final_report.about = state.ticker
        /\ state.final_report.whyAbout = state.ticker
        /\ state.company_name \in {"", state.ticker}
        /\ state.chart_data \in {"", state.ticker}
        /\ state.financial_data.kind = "reason" =>
              state.final_report.whyKind = state.financial_data.reason

\* with MAX_RETRIES = 2, ABC was rejected on its price, then the market data
\* of XYZ could not be read: the report on XYZ gives the price of ABC as the
\* reason and carries the company name and the chart of ABC
C38_Witness ==
    /\ EndedRejected
    /\ MAX_RETRIES = 2
    /\ trace = <<"scout", "gatekeeper", "scout", "gatekeeper", "analyst">>
    /\ state.ticker = "XYZ"
    /\ state.financial_data = ReasonData("api_error")
    /\ state.final_report = Text("rejected", "XYZ", "price", "ABC")
    /\ state.company_name = "ABC"
    /\ state.chart_data = "ABC"

---------------------------------------------------------------------------
(* The two ledger implementations on one file *)

OtherImpl(impl) == IF impl = "core" THEN "agent" ELSE "core"

\* the entries of the file before the last call that the other
\* implementation wrote less than 30 days ago
FreshFromOther ==
    {k \in DOMAIN lastOp.pre.entries :
        /\ WrittenBy(OtherImpl(lastOp.impl), lastOp.pre.entries[k])
        /\ Age(lastOp.pre.entries[k]) < MEMORY_TTL_DAYS}

\* C39: the two ledger implementations that share seen_tickers.json are
\* interchangeable: with the file readable and writable, an entry written
\* by either one less than 30 days ago is returned by a load through the
\* other one and is not dropped from the file by that load.
C39_Interchangeable ==
    (lastOp.name = "load" /\ lastOp.pre.kind = "object" /\ canRead /\ canWrite) =>
        \A k \in FreshFromOther :
            /\ ret.out = "ok"
            /\ k \in DOMAIN ret.map
            /\ file.kind = "object"
            /\ k \in DOMAIN file.entries

\* agent.load_memory on a readable and writable file that held ABC with the
\* Unix timestamp core.memory wrote 10 days before: ABC is not returned and
\* the file has been rewritten without it
C39_Witness ==
    /\ lastOp.name = "load"
    /\ lastOp.impl = "agent"
    /\ canRead /\ canWrite
    /\ now = 40
    /\ lastOp.pre = Object([k \in {"ABC"} |-> Num(30)])
    /\ ret.out = "ok"
    /\ ret.map = EmptyMap
    /\ file = Object(EmptyMap)


====
